---- MODULE Spec2Model ----
(***************************************************************************)
(* Reconciliation of payment-processor webhooks against the local user     *)
(* store (src/index.js).  The store holds, per user, the paymentHistory    *)
(* list, the orders list and the subscription fields.  Every `await` of a  *)
(* handler is one step: a store read, a store write or a processor call.   *)
(***************************************************************************)
EXTENDS Integers, Sequences, FiniteSets, TLC

None == "none"

(* ----------------------------- bounds -------------------------------- *)
MaxRecords == 3        \* payment records written over a run, all users
MaxOrders == 2         \* orders written over a run, all users
MaxItems == 2          \* items of a cart

(* --------------------------- value sets ------------------------------ *)
Users == {"u1", "u2"}
Procs == {1, 2}                      \* webhook requests in flight
PaymentIntentIds == {"pi_1", "pi_2"}
OrderRefs == {"order_1", "order_2"}
Callers == {"u1"}                    \* the authenticated caller of the synchronous endpoints
UnknownCustomer == "cus_x"           \* a processor customer of no local user

\* src/index.js:196-203 (/register): each user gets its own processor customer
customerId(u) == IF u = "u1" THEN "cus_u1" ELSE "cus_u2"
CustomerIds == {customerId(u) : u \in Users} \cup {UnknownCustomer}

\* statuses a confirmed payment intent is returned with by the processor
ConfirmStatuses == {"succeeded", "requires_action"}

PaymentEventTypes ==
  {"payment_intent.succeeded", "payment_intent.payment_failed", "payment_intent.canceled"}

\* the amount of each payment intent, in minor units
amountOf(pi) == IF pi = "pi_1" THEN 2599 ELSE 500

\* the processor's payment methods and the customer each is attached to
PaymentMethods == {"pm_own", "pm_other"}
customerOf(pm) == IF pm = "pm_own" THEN "cus_u1" ELSE "cus_u2"

\* A cart item of a /checkout body: price is a decimal in thousandths of the major
\* unit (25990 is 25.99), 0 when the item has no price: !item.price holds of both.
ItemPrices == {0, 12995, -5000}
ItemQuantities == {0, 1, 2}
CartItems == [price : ItemPrices, quantity : ItemQuantities]
\* the items field of a /checkout body: a list of up to MaxItems items, empty also
\* when the body has no list
CartsOf(Items) == UNION {[1..n -> Items] : n \in 0..MaxItems}
Carts == CartsOf(CartItems)
\* paymentMethodId of a body, user.defaultPaymentMethodId: a payment method or none
PaymentMethodChoices == PaymentMethods \cup {None}
\* the carts the existing order amounts come from
cartOf(pi) ==
  IF pi = "pi_1" THEN <<[price |-> 25990, quantity |-> 1]>>
  ELSE <<[price |-> 2500, quantity |-> 2]>>

(* A payment intent as the processor holds it: what every event about it carries. *)
\* (confirm: the status the intent was returned with when a synchronous endpoint
\* created and confirmed it)
NoIntent == [customer |-> None, amount |-> 0, orderId |-> None, userId |-> None, confirm |-> None]
\* intents created outside /checkout and /process-payment, without metadata
PlainIntents(pi) ==
  {[customer |-> c, amount |-> amountOf(pi), orderId |-> None, userId |-> None,
    confirm |-> None] : c \in CustomerIds}
\* intents created outside with metadata.orderId, with or without metadata.userId
TaggedIntents(pi) ==
  {[customer |-> c, amount |-> amountOf(pi), orderId |-> o, userId |-> m, confirm |-> None] :
     c \in CustomerIds, o \in OrderRefs, m \in Users \cup {None}}

\* intents created outside with metadata.orderId and no metadata.userId
OrderOnlyIntents(pi) == {it \in TaggedIntents(pi) : it.userId = None}
\* the intents an event may name besides those the endpoints created
ExternalIntents(pi) == PlainIntents(pi) \cup OrderOnlyIntents(pi)

SubscriptionIds == {"sub_1", "sub_2"}
InvoiceIds == {"in_1", "in_2"}
EventSubStatuses == {"active", "past_due", "canceled"}   \* subscription.status in an event
PeriodEnds == {1}                                         \* current_period_end values
\* the payment intent of each invoice
invoiceIntent(inv) == IF inv = "in_1" THEN "pi_1" ELSE "pi_2"

\* schema defaults of the subscription fields   unnamed/part_001:179-203
NoSubscription ==
  [subscriptionId |-> None, subscriptionStatus |-> None,
   subscriptionPeriodEnd |-> 0, cancelAtPeriodEnd |-> FALSE]
\* payload of a webhook event that is not about a payment intent
NoObject ==
  [id |-> None, customer |-> None, status |-> None, periodEnd |-> 0,
   cancelAtPeriodEnd |-> FALSE, subscription |-> None]

VARIABLES
  paymentHistory,   \* [Users -> Seq(payment record)]      user.paymentHistory
  orders,           \* [Users -> Seq(order)]               user.orders
  intents,          \* [PaymentIntentIds -> intent]        the processor's payment intents
  webhook,          \* [Procs -> request]                  POST /webhook requests in flight
  checkout,         \* POST /checkout request in flight
  payment,          \* POST /process-payment request in flight
  prev,             \* history: the webhook delivery answered last, unless a synchronous write followed
  early,            \* history: order whose succeeded event was answered before /checkout saved it
  subscription,     \* [Users -> subscription fields of the user document]
  cancel,           \* POST /subscriptions/cancel request in flight
  story,            \* history: period-end cancel request, then the deleted event
  webhookSecret,    \* process.env.STRIPE_WEBHOOK_SECRET is defined
  response,         \* the response the webhook endpoint sent last, with the request's signature
  account,          \* DELETE /user/account request in flight
  removed,          \* [Users -> how the user document was deleted, if it was]
  listing,          \* the body GET /payment-history answered last
  subscribe,        \* POST /subscriptions request in flight
  answer            \* the response the payment endpoints sent last, with its request

subVars == <<subscription, cancel, story>>
restVars == <<webhookSecret, account, removed, listing, subscribe, answer>>
netVars == <<restVars, response>>
storeVars == <<paymentHistory, orders, subscription>>
vars == <<paymentHistory, orders, intents, webhook, checkout, payment, prev, early, subVars,
          netVars>>

(* ----------------------------- helpers ------------------------------- *)
\* User.findOne({ customerId })
FindByCustomer(c) ==
  IF \E u \in Users : customerId(u) = c /\ ~removed[u].gone
    THEN CHOOSE u \in Users : customerId(u) = c /\ ~removed[u].gone
    ELSE None

\* number of records of user u that carry payment-intent id pi
Count(u, pi) == Len(SelectSeq(paymentHistory[u], LAMBDA r : r.paymentIntentId = pi))

\* a search that settles for the first order, to test that C17 depends on the match
findIndex_first(os, orderId) == IF Len(os) > 0 THEN 1 ELSE 0

\* user.orders.findIndex(o => o.orderId === orderId), 1-based, 0 when absent
findIndex(os, orderId) ==
  IF \E i \in 1..Len(os) : os[i].orderId = orderId
    THEN CHOOSE i \in 1..Len(os) :
           os[i].orderId = orderId /\ \A j \in 1..(i - 1) : os[j].orderId # orderId
    ELSE 0

RECURSIVE SumLen(_, _)
SumLen(f, S) ==
  IF S = {} THEN 0
  ELSE LET u == CHOOSE x \in S : TRUE IN Len(f[u]) + SumLen(f, S \ {u})

IdleWebhook ==
  [pc |-> "idle", type |-> None, pi |-> None, user |-> None, userId |-> None,
   orderIndex |-> 0, obj |-> NoObject, doc |-> NoSubscription, before |-> NoSubscription,
   appended |-> FALSE, fresh |-> FALSE, again |-> FALSE, first |-> FALSE,
   cardFailed |-> FALSE, overlap |-> FALSE, settled |-> FALSE, raced |-> FALSE]
IdleCheckout ==
  [pc |-> "idle", user |-> None, orderId |-> None, pi |-> None, amount |-> 0, status |-> None,
   cart |-> <<>>, items |-> <<>>, selected |-> None]
IdlePayment ==
  [pc |-> "idle", user |-> None, pi |-> None, amount |-> 0, status |-> None,
   selected |-> None]
\* no payment endpoint has answered yet
NoAnswer == [route |-> None, status |-> 0, user |-> None, selected |-> None]
IdleCancel ==
  [pc |-> "idle", user |-> None, cancelImmediately |-> FALSE, doc |-> NoSubscription,
   processorOk |-> FALSE]
NoStory == [phase |-> None, user |-> None, by |-> None]
IdleSubscribe ==
  [pc |-> "idle", user |-> None, doc |-> NoSubscription, id |-> None, invoice |-> None,
   status |-> None, periodEnd |-> 0, selected |-> None]
IdleAccount ==
  [pc |-> "idle", user |-> None, doc |-> NoSubscription,
   cancelFailed |-> FALSE, customerFailed |-> FALSE]
\* the user document exists
Present == [gone |-> FALSE, cancelFailed |-> FALSE, customerFailed |-> FALSE]
\* an acknowledgement with a server-error status, to test that C16 depends on the status
Acknowledged_error == [status |-> 500, sig |-> "valid", fault |-> None]

\* a handled event that is left without response, to test C31
Acknowledged_silent == [status |-> 0, sig |-> None, fault |-> None]

\* no response sent yet
NoResponse == [status |-> 0, sig |-> None, fault |-> None]
\* res.status(200).json({ received: true })   index.js:156-158
Acknowledged == [status |-> 200, sig |-> "valid", fault |-> None]
NoPrev ==
  [type |-> None, pi |-> None, appended |-> FALSE, sole |-> FALSE, twice |-> FALSE, first |-> FALSE]

\* history: another delivery has read the user's ledger and not yet written its record
Midway(p, u) ==
  \E q \in Procs \ {p} :
    webhook[q].user = u /\ webhook[q].pc \in {"hsp_check", "hsp_push", "hip_save"}

\* history: a synchronous write came between the steps of the deliveries in flight
Disturbed ==
  [p \in Procs |-> [webhook[p] EXCEPT !.fresh = FALSE, !.again = FALSE, !.settled = FALSE]]

\* history: an order of user u was appended between the index read and the write of
\* an order-status update of u
DisturbedByOrder(u) ==
  [p \in Procs |->
     [Disturbed[p] EXCEPT !.raced = @ \/ (webhook[p].pc = "uos_set" /\ webhook[p].userId = u)]]

Busy(S) == Cardinality({p \in S : webhook[p].pc # "idle"})
\* room for one more request that may write a payment record
RoomForRecord ==
  SumLen(paymentHistory, Users) + Busy(Procs)
    + (IF payment.pc = "idle" THEN 0 ELSE 1)
    + (IF subscribe.pc = "idle" THEN 0 ELSE 1) < MaxRecords
RoomForOrder ==
  SumLen(orders, Users) + (IF checkout.pc = "idle" THEN 0 ELSE 1) < MaxOrders

\* the stores are empty and no request is in flight
InitStore ==
  /\ paymentHistory = [u \in Users |-> <<>>]
  /\ orders = [u \in Users |-> <<>>]
  /\ intents = [pi \in PaymentIntentIds |-> NoIntent]
  /\ webhook = [p \in Procs |-> IdleWebhook]
  /\ checkout = IdleCheckout
  /\ payment = IdlePayment
  /\ prev = NoPrev
  /\ early = None
  /\ subscription = [u \in Users |-> NoSubscription]
  /\ cancel = IdleCancel
  /\ story = NoStory
  /\ response = NoResponse
  /\ account = IdleAccount
  /\ removed = [u \in Users |-> Present]
  /\ listing = <<>>
  /\ subscribe = IdleSubscribe
  /\ answer = NoAnswer

\* the deployment has its webhook secret configured
Init == InitStore /\ webhookSecret = TRUE


(* ------------------------ ledger and order writes --------------------- *)
\* a write that replaces the list by the new record, to test that C21 depends on
\* the append being atomic
Append1_replace(f, u, x) == [f EXCEPT ![u] = <<x>>]

\* a write that puts the new record first, to test that C24 depends on the position
Append1_front(f, u, x) == [f EXCEPT ![u] = <<x>> \o @]

Append1(f, u, x) == [f EXCEPT ![u] = Append(@, x)]

\* a handler without the existence check, to test that C1 depends on the check
existingPayment_never(u, pi) == FALSE

\* User.findOne({ _id, 'paymentHistory.paymentIntentId': id })   index.js:915-923
existingPayment(u, pi) == \E i \in 1..Len(paymentHistory[u]) : paymentHistory[u][i].paymentIntentId = pi

\* the last four digits of the customer's card
cardLast4 == "4242"
\* a retrieval whose failure leaves no mark, to test that C26 depends on the fallback
paymentMethodLast4_blank(ok) == IF ok THEN cardLast4 ELSE None

\* paymentMethods.retrieve in its own try/catch: the card's last4, 'unknown' when the
\* retrieval throws   index.js:925-934, 1961-1972
paymentMethodLast4(ok) == IF ok THEN cardLast4 ELSE "unknown"

\* the record pushed by handleSuccessfulPayment   index.js:936-951
\* (status is paymentIntent.status, 'succeeded' in a payment_intent.succeeded event)
successRecord(pi, it, ok) ==
  [paymentIntentId |-> pi, amount |-> it.amount, status |-> "succeeded", invoiceId |-> None,
   paymentMethodLast4 |-> paymentMethodLast4(ok)]
\* the record pushed by handleFailedPayment   index.js:976-991
failedRecord(pi, it) ==
  [paymentIntentId |-> pi, amount |-> it.amount, status |-> "failed", invoiceId |-> None,
   paymentMethodLast4 |-> None]
\* the record pushed by handleCanceledPayment   index.js:1020-1034
canceledRecord(pi, it) ==
  [paymentIntentId |-> pi, amount |-> it.amount, status |-> "canceled", invoiceId |-> None,
   paymentMethodLast4 |-> None]

\* a dispatcher that marks every order failed, to test that C8 depends on the outcome
orderOutcome_failed(type) == [status |-> "failed", paymentStatus |-> "failed"]

\* the arguments the dispatcher gives updateOrderStatus   index.js:73-78, 91-96
orderOutcome(type) ==
  IF type = "payment_intent.succeeded"
    THEN [status |-> "completed", paymentStatus |-> "succeeded"]
    ELSE [status |-> "failed", paymentStatus |-> "failed"]

\* an update of every order of the user, to test that C25 depends on the position
setOrder_all(os, index, out) ==
  [i \in 1..Len(os) |-> [os[i] EXCEPT !.status = out.status, !.paymentStatus = out.paymentStatus]]

\* $set of orders.<index>.status and orders.<index>.paymentStatus   index.js:1365-1376
setOrder(os, index, out) ==
  IF index \in 1..Len(os)
    THEN [os EXCEPT ![index] = [@ EXCEPT !.status = out.status, !.paymentStatus = out.paymentStatus]]
    ELSE os

\* where the dispatcher goes once the ledger handler has returned   index.js:55-83, 89-98, 105-108
afterLedger(type, it) ==
  CASE type = "payment_intent.succeeded" ->
         IF it.orderId = None THEN "respond"
         ELSE IF it.userId = None THEN "resolve" ELSE "uos_find"
    [] type = "payment_intent.payment_failed" ->
         IF it.orderId = None THEN "respond" ELSE "uos_find"
    [] OTHER -> "respond"

\* the first step of each ledger handler once the user is found
ledgerStep(type) ==
  CASE type = "payment_intent.succeeded" -> "hsp_check"
    [] type = "payment_intent.payment_failed" -> "hfp_push"
    [] OTHER -> "hcp_push"

(* history: the case of one first delivery of a succeeded event for an existing order *)
FirstForOrder(type, pi, it) ==
  /\ type = "payment_intent.succeeded"
  /\ it.orderId # None /\ it.userId \in Users
  /\ it.customer = customerId(it.userId)
  /\ Count(it.userId, pi) = 0
  /\ LET i == findIndex(orders[it.userId], it.orderId) IN
       /\ i > 0
       /\ orders[it.userId][i].totalAmount = it.amount
       /\ orders[it.userId][i].paymentIntentId = pi

(* ------------------------------ POST /webhook ------------------------- *)
\* the stripe-signature header of a request: absent, not of the expected form, not
\* matching the body under the secret, or valid
Signatures == {"absent", "malformed", "mismatch", "valid"}

\* the status of the catch block of the endpoint   index.js:159-162
catchStatus == 400

\* a verification that answers a bad signature like a missing secret, to test C13
rejection_badSignature500(sig, secret) ==
  IF sig = "absent" THEN 400 ELSE IF ~secret \/ sig # "valid" THEN 500 ELSE 0
\* a verification without the secret check, to test C14
rejection_secretUnchecked(sig, secret) == IF sig = "valid" THEN 0 ELSE 400

\* The status a request is turned away with before dispatch, 0 when constructEvent
\* returns the event.   index.js:20-46, 159-162
rejection(sig, secret) ==
  IF sig = "absent" THEN 400
  ELSE IF ~secret THEN 500
  ELSE IF sig # "valid" THEN catchStatus
  ELSE 0

\* The request is turned away: no signature, no secret, or constructEvent throws.
Reject(p, sig) ==
  /\ webhook[p].pc = "idle"
  /\ rejection(sig, webhookSecret) # 0
  /\ response' = [status |-> rejection(sig, webhookSecret), sig |-> sig, fault |-> None]
  /\ UNCHANGED <<paymentHistory, orders, intents, webhook, checkout, payment, prev, early,
                 subVars, restVars>>

\* event types the dispatcher logs and leaves alone   index.js:100-103, 110-125
NoopEventTypes ==
  {"payment_intent.requires_action", "payment_intent.created", "charge.succeeded",
   "charge.updated", "charge.failed"}
\* an event type with no case in the switch   index.js:152-154
UnhandledEventTypes == {"customer.created"}
OtherEventTypes == NoopEventTypes \cup UnhandledEventTypes

\* a verified event of a type that needs no work goes to the acknowledgement
\* index.js:100-125, 152-154
DeliverOther(p, type) ==
  /\ webhook[p].pc = "idle"
  /\ rejection("valid", webhookSecret) = 0
  /\ webhook' = [webhook EXCEPT ![p] = [IdleWebhook EXCEPT !.pc = "respond", !.type = type]]
  /\ prev' = NoPrev
  /\ UNCHANGED <<paymentHistory, orders, intents, checkout, payment, early, subVars, netVars>>

\* The request is verified and dispatched; the handler's first await,
\* User.findOne({ customerId }), is answered.   index.js:40-53, 87, 107, 907, 969, 1013
Deliver(p, type, pi, Ext) ==
  /\ webhook[p].pc = "idle"
  /\ rejection("valid", webhookSecret) = 0
  /\ RoomForRecord
  /\ \E it \in (IF intents[pi] = NoIntent THEN Ext ELSE {intents[pi]}) :
       LET user == FindByCustomer(it.customer) IN
       \* an intent that was confirmed as succeeded neither fails nor is canceled
       /\ it.confirm = "succeeded" => type = "payment_intent.succeeded"
       /\ intents' = [intents EXCEPT ![pi] = it]
       /\ webhook' = [webhook EXCEPT ![p] =
            [pc |-> IF user = None THEN afterLedger(type, it) ELSE ledgerStep(type),
             type |-> type, pi |-> pi, user |-> user, userId |-> it.userId,
             orderIndex |-> 0, obj |-> NoObject, doc |-> NoSubscription,
             before |-> NoSubscription,
             appended |-> FALSE,
             fresh |-> (user # None /\ Count(user, pi) = 0),
             again |-> (prev.type = type /\ prev.pi = pi /\ prev.sole),
             first |-> FirstForOrder(type, pi, it), cardFailed |-> FALSE,
             overlap |-> FALSE, settled |-> FALSE, raced |-> FALSE]]
       /\ early' = IF it.orderId = early THEN None ELSE early
  /\ prev' = [prev EXCEPT !.twice = FALSE, !.first = FALSE]
  /\ UNCHANGED <<paymentHistory, orders, checkout, payment, subVars, netVars>>

\* handleSuccessfulPayment: the already-recorded check   index.js:914-923
handleSuccessfulPayment_check(p) ==
  LET w == webhook[p] IN
  /\ w.pc = "hsp_check"
  /\ webhook' = [webhook EXCEPT ![p].pc =
       IF existingPayment(w.user, w.pi) THEN afterLedger(w.type, intents[w.pi]) ELSE "hsp_push"]
  /\ UNCHANGED <<paymentHistory, orders, intents, checkout, payment, prev, early, subVars, netVars>>

\* handleSuccessfulPayment: retrieval of the payment method (ok: it succeeds) and
\* $push of the record   index.js:925-951
handleSuccessfulPayment_push(p, ok) ==
  LET w == webhook[p] IN
  /\ w.pc = "hsp_push"
  /\ paymentHistory' = Append1(paymentHistory, w.user, successRecord(w.pi, intents[w.pi], ok))
  /\ webhook' = [webhook EXCEPT ![p].pc = afterLedger(w.type, intents[w.pi]),
                                ![p].appended = TRUE, ![p].cardFailed = ~ok,
                                ![p].overlap = Midway(p, w.user)]
  /\ UNCHANGED <<orders, intents, checkout, payment, prev, early, subVars, netVars>>

\* handleFailedPayment: $push of the record   index.js:976-991
handleFailedPayment_push(p) ==
  LET w == webhook[p] IN
  /\ w.pc = "hfp_push"
  /\ paymentHistory' = Append1(paymentHistory, w.user, failedRecord(w.pi, intents[w.pi]))
  /\ webhook' = [webhook EXCEPT ![p].pc = afterLedger(w.type, intents[w.pi]), ![p].appended = TRUE]
  /\ UNCHANGED <<orders, intents, checkout, payment, prev, early, subVars, netVars>>

\* handleCanceledPayment: $push of the record   index.js:1020-1034
handleCanceledPayment_push(p) ==
  LET w == webhook[p] IN
  /\ w.pc = "hcp_push"
  /\ paymentHistory' = Append1(paymentHistory, w.user, canceledRecord(w.pi, intents[w.pi]))
  /\ webhook' = [webhook EXCEPT ![p].pc = afterLedger(w.type, intents[w.pi]), ![p].appended = TRUE]
  /\ UNCHANGED <<orders, intents, checkout, payment, prev, early, subVars, netVars>>

\* payment_intent.succeeded without metadata.userId: the owner of the order is
\* looked up by customer id   index.js:63-70, 79-81
resolveOrderUser(p) ==
  LET w == webhook[p]
      user == FindByCustomer(intents[w.pi].customer) IN
  /\ w.pc = "resolve"
  /\ webhook' = [webhook EXCEPT ![p].userId = user,
                                ![p].pc = IF user = None THEN "respond" ELSE "uos_find"]
  /\ UNCHANGED <<paymentHistory, orders, intents, checkout, payment, prev, early, subVars, netVars>>

\* updateOrderStatus: User.findById and the search of the order   index.js:1339-1363
updateOrderStatus_find(p) ==
  LET w == webhook[p]
      index == IF w.userId \in Users
                 THEN findIndex(orders[w.userId], intents[w.pi].orderId) ELSE 0 IN
  /\ w.pc = "uos_find"
  /\ webhook' = [webhook EXCEPT ![p].orderIndex = index,
                                ![p].pc = IF index = 0 THEN "respond" ELSE "uos_set"]
  /\ UNCHANGED <<paymentHistory, orders, intents, checkout, payment, prev, early, subVars, netVars>>

\* updateOrderStatus: the positional $set   index.js:1365-1376
updateOrderStatus_set(p) ==
  LET w == webhook[p] IN
  /\ w.pc = "uos_set"
  /\ orders' = [orders EXCEPT ![w.userId] = setOrder(@, w.orderIndex, orderOutcome(w.type))]
  /\ webhook' = [webhook EXCEPT ![p].pc = "respond"]
  /\ UNCHANGED <<paymentHistory, intents, checkout, payment, prev, early, subVars, netVars>>

\* res.status(200).json({ received: true })   index.js:156-158
Respond(p) ==
  LET w == webhook[p] IN
  /\ w.pc = "respond"
  /\ webhook' = [webhook EXCEPT ![p] = IdleWebhook]
  /\ prev' = IF w.type \in PaymentEventTypes
               THEN [type |-> w.type, pi |-> w.pi, appended |-> w.appended,
                     sole |-> (w.appended /\ w.fresh),
                     twice |-> (w.again /\ prev.type = w.type /\ prev.pi = w.pi
                                /\ prev.sole),
                     first |-> w.first]
               ELSE [NoPrev EXCEPT !.type = IF w.type \in OtherEventTypes THEN w.type ELSE None]
  /\ early' = IF /\ w.type = "payment_intent.succeeded"
                 /\ checkout.pc = "created" /\ checkout.pi = w.pi
               THEN checkout.orderId ELSE early
  /\ response' = Acknowledged
  /\ UNCHANGED <<paymentHistory, orders, intents, checkout, payment, subVars, restVars>>

\* the steps at which a ledger or subscription handler awaits the store
HandlerSteps ==
  {"idle", "hsp_check", "hsp_push", "hfp_push", "hcp_push",
   "hsc_save", "hsu_save", "hsd_save", "hip_save", "hif_save"}

\* The store rejects the read or write a handler awaits: the handler rethrows and the
\* catch block of the endpoint answers.   index.js:954-957, 994-997, 159-162
HandlerFault(p) ==
  /\ webhook[p].pc \in HandlerSteps
  /\ rejection("valid", webhookSecret) = 0
  /\ webhook' = [webhook EXCEPT ![p] = IdleWebhook]
  /\ response' = [status |-> catchStatus, sig |-> "valid", fault |-> "handler"]
  /\ prev' = NoPrev
  /\ UNCHANGED <<paymentHistory, orders, intents, checkout, payment, early, subVars,
                 restVars>>

\* The store rejects User.findOne({ customerId }) of the dispatcher, after the ledger
\* handler has returned: the catch block of the endpoint answers.   index.js:63-70, 159-162
LookupFault(p) ==
  /\ webhook[p].pc = "resolve"
  /\ webhook' = [webhook EXCEPT ![p] = IdleWebhook]
  /\ response' = [status |-> catchStatus, sig |-> "valid",
                  fault |-> IF webhook[p].appended THEN "lookup_after_write" ELSE "lookup"]
  /\ prev' = NoPrev
  /\ UNCHANGED <<paymentHistory, orders, intents, checkout, payment, early, subVars,
                 restVars>>

\* The store rejects a read or the write of updateOrderStatus: the error is logged
\* and swallowed.   index.js:1380-1383
updateOrderStatus_fault(p) ==
  /\ webhook[p].pc \in {"uos_find", "uos_set"}
  /\ webhook' = [webhook EXCEPT ![p].pc = "respond", ![p].orderIndex = 0]
  /\ UNCHANGED <<paymentHistory, orders, intents, checkout, payment, prev, early, subVars,
                 netVars>>

(* ------------------------------ POST /checkout ------------------------ *)
\* the order reference is new: Date.now() and a random suffix   index.js:1144
FreshOrderRef(o) ==
  /\ \A u \in Users : findIndex(orders[u], o) = 0
  /\ \A pi \in PaymentIntentIds : intents[pi].orderId # o

\* !items || !Array.isArray(items) || items.length === 0   index.js:1086
itemsMissing(cart) == Len(cart) = 0

\* !item.price || !item.quantity || item.quantity <= 0   index.js:1102
invalidItem(item) == item.price = 0 \/ item.quantity = 0 \/ item.quantity <= 0

\* Math.round(parseFloat(item.price) * 100): the nearest integer, a half rounded up
\* index.js:1107
toCents(price) == (price + 5) \div 10

\* const itemTotal = itemPrice * item.quantity, without the quantity: to test C36
itemTotal_unit(itemPrice, quantity) == itemPrice

\* const itemTotal = itemPrice * item.quantity   index.js:1108
itemTotal(itemPrice, quantity) == itemPrice * quantity

\* the line item pushed for a cart item   index.js:1111-1119
lineItem(item) ==
  [quantity |-> item.quantity, price |-> toCents(item.price),
   subtotal |-> itemTotal(toCents(item.price), item.quantity)]
lineItems(cart) == [k \in 1..Len(cart) |-> lineItem(cart[k])]

\* totalAmount += itemTotal over the items   index.js:1098-1109
RECURSIVE cartTotal(_)
cartTotal(items) ==
  IF items = <<>> THEN 0 ELSE Head(items).subtotal + cartTotal(Tail(items))

\* a total that is never refused, to test C37
totalRejected_never(total) == FALSE

\* totalAmount <= 0   index.js:1122
totalRejected(total) == total <= 0

\* paymentMethodId || user.defaultPaymentMethodId   index.js:1127
selectedPaymentMethodId(pm, dflt) == IF pm # None THEN pm ELSE dflt

\* a payment method that is never refused, to test C38
notOwned_never(pm, u) == FALSE

\* paymentMethod.customer !== req.user.customerId   index.js:1139
notOwned(pm, u) == customerOf(pm) # customerId(u)

\* the status the checks of the cart lead to, 200 when they pass; an invalid item
\* throws inside forEach and the catch answers 500   index.js:1086-1124, 1235-1242
cartStatus(cart) ==
  IF itemsMissing(cart) THEN 400
  ELSE IF \E k \in 1..Len(cart) : invalidItem(cart[k]) THEN 500
  ELSE IF totalRejected(cartTotal(lineItems(cart))) THEN 400
  ELSE 200

\* the status the checks of the selected payment method lead to, 200 when they pass
\* index.js:1130-1141 (the same checks at 739-749 and 1417-1428)
cardStatus(u, selected) ==
  IF selected = None THEN 400
  ELSE IF notOwned(selected, u) THEN 403
  ELSE 200

\* the status /checkout answers for a body and a stored default payment method, 200
\* when the request gets through to the payment intent   index.js:1086-1141
checkoutStatus(u, cart, pm, dflt) ==
  IF cartStatus(cart) # 200 THEN cartStatus(cart)
  ELSE cardStatus(u, selectedPaymentMethodId(pm, dflt))

\* the payment method selected, none when the request ends before the selection
\* index.js:1122-1127
checkoutSelected(cart, pm, dflt) ==
  IF cartStatus(cart) # 200 THEN None ELSE selectedPaymentMethodId(pm, dflt)

\* a /checkout request that is refused: nothing is created or written
\* index.js:1086-1141, 1235-1242
CheckoutRejected(u, cart, pm, dflt) ==
  /\ checkout.pc = "idle"
  /\ checkoutStatus(u, cart, pm, dflt) # 200
  /\ answer' = [route |-> "/checkout", status |-> checkoutStatus(u, cart, pm, dflt),
                user |-> u, selected |-> checkoutSelected(cart, pm, dflt)]
  /\ UNCHANGED <<paymentHistory, orders, intents, webhook, checkout, payment, prev, early,
                 subVars, webhookSecret, account, removed, listing, subscribe, response>>

\* the checks, then stripeClient.paymentIntents.create({ amount: totalAmount, customer,
\* payment_method, confirm: true, metadata: { orderId, userId } })   index.js:1086-1171
CheckoutCreate(u, cart, pm, dflt, o, pi, status) ==
  /\ checkout.pc = "idle"
  /\ checkoutStatus(u, cart, pm, dflt) = 200
  /\ RoomForOrder
  /\ FreshOrderRef(o)
  /\ intents[pi] = NoIntent
  /\ intents' = [intents EXCEPT ![pi] =
       [customer |-> customerId(u), amount |-> cartTotal(lineItems(cart)), orderId |-> o,
        userId |-> u, confirm |-> status]]
  /\ checkout' = [pc |-> "created", user |-> u, orderId |-> o, pi |-> pi,
                  amount |-> cartTotal(lineItems(cart)), status |-> status,
                  cart |-> cart, items |-> lineItems(cart),
                  selected |-> selectedPaymentMethodId(pm, dflt)]
  /\ UNCHANGED <<paymentHistory, orders, webhook, payment, prev, early, subVars, netVars>>

\* a /checkout request of the caller's own card for the cart of the payment intent
CheckoutCreateIntent(u, o, pi, status) ==
  CheckoutCreate(u, cartOf(pi), "pm_own", None, o, pi, status)

\* the order object   index.js:1173-1189
newOrder(c) ==
  [orderId |-> c.orderId, paymentIntentId |-> c.pi, totalAmount |-> c.amount,
   items |-> c.items, status |-> c.status, paymentStatus |-> c.status,
   paymentMethodId |-> c.selected]

\* User.findOneAndUpdate({ _id }, { $push: { orders: order } }) and the response
\* index.js:1191-1234
CheckoutSaveOrder ==
  /\ checkout.pc = "created"
  /\ orders' = Append1(orders, checkout.user, newOrder(checkout))
  /\ checkout' = IdleCheckout
  /\ prev' = NoPrev
  /\ webhook' = DisturbedByOrder(checkout.user)
  /\ answer' = [route |-> "/checkout", status |-> 200, user |-> checkout.user,
                selected |-> checkout.selected]
  /\ UNCHANGED <<paymentHistory, intents, payment, early, subVars,
                 webhookSecret, account, removed, listing, subscribe, response>>

(* --------------------------- POST /process-payment -------------------- *)
\* stripeClient.paymentIntents.create({ amount, customer, confirm: true })   index.js:353-365
ProcessPaymentCreate(u, pi, status) ==
  /\ payment.pc = "idle"
  /\ RoomForRecord
  /\ intents[pi] = NoIntent
  /\ intents' = [intents EXCEPT ![pi] =
       [customer |-> customerId(u), amount |-> amountOf(pi), orderId |-> None, userId |-> None,
        confirm |-> status]]
  /\ payment' = [pc |-> "created", user |-> u, pi |-> pi, amount |-> amountOf(pi),
                 status |-> status, selected |-> None]
  /\ UNCHANGED <<paymentHistory, orders, webhook, checkout, prev, early, subVars, netVars>>

\* the record pushed by /process-payment   index.js:367-382
syncRecord(r) ==
  [paymentIntentId |-> r.pi, amount |-> r.amount, status |-> r.status, invoiceId |-> None,
   paymentMethodLast4 |-> cardLast4]

ProcessPaymentRecord ==
  /\ payment.pc = "created"
  /\ paymentHistory' = Append1(paymentHistory, payment.user, syncRecord(payment))
  /\ payment' = IdlePayment
  /\ prev' = NoPrev
  /\ webhook' = Disturbed
  /\ UNCHANGED <<orders, intents, checkout, early, subVars, netVars>>

(* ------------------- POST /process-payment-with-saved-card ------------ *)
\* a request that is refused: no payment method, or one of another customer
\* index.js:729-749
SavedCardRejected(u, pm, dflt) ==
  /\ payment.pc = "idle"
  /\ cardStatus(u, selectedPaymentMethodId(pm, dflt)) # 200
  /\ answer' = [route |-> "/process-payment-with-saved-card",
                status |-> cardStatus(u, selectedPaymentMethodId(pm, dflt)),
                user |-> u, selected |-> selectedPaymentMethodId(pm, dflt)]
  /\ UNCHANGED <<paymentHistory, orders, intents, webhook, checkout, payment, prev, early,
                 subVars, webhookSecret, account, removed, listing, subscribe, response>>

\* the checks, then stripeClient.paymentIntents.create({ amount, customer,
\* payment_method, confirm: true })   index.js:729-763
SavedCardCreate(u, pm, dflt, pi, status) ==
  /\ payment.pc = "idle"
  /\ cardStatus(u, selectedPaymentMethodId(pm, dflt)) = 200
  /\ RoomForRecord
  /\ intents[pi] = NoIntent
  /\ intents' = [intents EXCEPT ![pi] =
       [customer |-> customerId(u), amount |-> amountOf(pi), orderId |-> None, userId |-> None,
        confirm |-> status]]
  /\ payment' = [pc |-> "card_created", user |-> u, pi |-> pi, amount |-> amountOf(pi),
                 status |-> status, selected |-> selectedPaymentMethodId(pm, dflt)]
  /\ UNCHANGED <<paymentHistory, orders, webhook, checkout, prev, early, subVars, netVars>>

\* the record pushed by /process-payment-with-saved-card   index.js:765-779
savedCardRecord(r) ==
  [paymentIntentId |-> r.pi, amount |-> r.amount, status |-> r.status, invoiceId |-> None,
   paymentMethodLast4 |-> cardLast4]

\* User.findByIdAndUpdate($push paymentHistory) and the response   index.js:765-793
SavedCardRecord ==
  /\ payment.pc = "card_created"
  /\ paymentHistory' = Append1(paymentHistory, payment.user, savedCardRecord(payment))
  /\ answer' = [route |-> "/process-payment-with-saved-card", status |-> 200,
                user |-> payment.user, selected |-> payment.selected]
  /\ payment' = IdlePayment
  /\ prev' = NoPrev
  /\ webhook' = Disturbed
  /\ UNCHANGED <<orders, intents, checkout, early, subVars,
                 webhookSecret, account, removed, listing, subscribe, response>>

(* --------------------------- subscription events ---------------------- *)
\* user.save(): the fields assigned a value other than the loaded one are written
saveSubscription(stored, doc, new) ==
  [f \in DOMAIN stored |-> IF new[f] # doc[f] THEN new[f] ELSE stored[f]]

\* handleSubscriptionCreated   index.js:1880-1885
subscriptionCreated(doc, obj) ==
  [doc EXCEPT !.subscriptionId = obj.id, !.subscriptionStatus = obj.status,
              !.subscriptionPeriodEnd = obj.periodEnd]
\* a handler that ignores an event older than the stored period end, to test C27
subscriptionUpdated_newest(doc, obj) ==
  IF obj.periodEnd < doc.subscriptionPeriodEnd
    THEN doc
    ELSE [doc EXCEPT !.subscriptionStatus = obj.status, !.subscriptionPeriodEnd = obj.periodEnd,
                     !.cancelAtPeriodEnd = obj.cancelAtPeriodEnd]

\* handleSubscriptionUpdated   index.js:1904-1909
subscriptionUpdated(doc, obj) ==
  [doc EXCEPT !.subscriptionStatus = obj.status, !.subscriptionPeriodEnd = obj.periodEnd,
              !.cancelAtPeriodEnd = obj.cancelAtPeriodEnd]
\* a handler that leaves cancelAtPeriodEnd alone, to test that C10 depends on the reset
subscriptionCanceled_keepsFlag(doc, obj) == [doc EXCEPT !.subscriptionStatus = "canceled"]

\* handleSubscriptionCanceled   index.js:1928-1932
subscriptionCanceled(doc, obj) ==
  [doc EXCEPT !.subscriptionStatus = "canceled", !.cancelAtPeriodEnd = FALSE]
\* handleInvoicePaid: subscription status update   index.js:1987-1993
invoicePaid(doc, obj) ==
  IF doc.subscriptionId = obj.subscription
    THEN [doc EXCEPT !.subscriptionStatus = "active", !.subscriptionPeriodEnd = obj.periodEnd]
    ELSE doc
\* a handler without the subscription-id guard, to test that C12 depends on the guard
invoicePaymentFailed_unguarded(doc, obj) == [doc EXCEPT !.subscriptionStatus = "past_due"]

\* a handler that cancels on the second failure, to test C28
invoicePaymentFailed_escalating(doc, obj) ==
  IF doc.subscriptionId = obj.subscription
    THEN [doc EXCEPT !.subscriptionStatus =
            IF doc.subscriptionStatus = "past_due" THEN "canceled" ELSE "past_due"]
    ELSE doc

\* handleInvoicePaymentFailed   index.js:2012-2017
invoicePaymentFailed(doc, obj) ==
  IF doc.subscriptionId = obj.subscription
    THEN [doc EXCEPT !.subscriptionStatus = "past_due"]
    ELSE doc
\* the record pushed by handleInvoicePaid   index.js:1974-1985
invoiceRecord(obj, ok) ==
  [paymentIntentId |-> invoiceIntent(obj.id), amount |-> amountOf(invoiceIntent(obj.id)),
   status |-> "succeeded", invoiceId |-> obj.id, paymentMethodLast4 |-> paymentMethodLast4(ok)]
\* user.paymentHistory.find(p => p.invoiceId === invoice.id)   index.js:1951-1959
existingInvoice(u, inv) ==
  \E i \in 1..Len(paymentHistory[u]) : paymentHistory[u][i].invoiceId = inv

SubscriptionEventTypes ==
  {"customer.subscription.created", "customer.subscription.updated",
   "customer.subscription.deleted", "invoice.payment_succeeded", "invoice.payment_failed"}

\* the customers the subscription and invoice events name
SubscriptionCustomers == {customerId(u) : u \in Callers} \cup {UnknownCustomer}

\* the payloads of the subscription and invoice events, with period ends among E
EventObjectsAt(type, E) ==
  CASE type = "customer.subscription.created" ->
         {[id |-> i, customer |-> c, status |-> st, periodEnd |-> e,
           cancelAtPeriodEnd |-> FALSE, subscription |-> None] :
            i \in SubscriptionIds, c \in SubscriptionCustomers, st \in EventSubStatuses, e \in E}
    [] type = "customer.subscription.updated" ->
         {[id |-> i, customer |-> c, status |-> st, periodEnd |-> e,
           cancelAtPeriodEnd |-> b, subscription |-> None] :
            i \in SubscriptionIds, c \in SubscriptionCustomers, st \in EventSubStatuses,
            e \in E, b \in BOOLEAN}
    [] type = "customer.subscription.deleted" ->
         {[id |-> i, customer |-> c, status |-> "canceled", periodEnd |-> 0,
           cancelAtPeriodEnd |-> FALSE, subscription |-> None] :
            i \in SubscriptionIds, c \in SubscriptionCustomers}
    [] type = "invoice.payment_succeeded" ->
         {[id |-> i, customer |-> c, status |-> "paid", periodEnd |-> e,
           cancelAtPeriodEnd |-> FALSE, subscription |-> sb] :
            i \in InvoiceIds, c \in SubscriptionCustomers, sb \in SubscriptionIds, e \in E}
    [] OTHER ->
         {[id |-> None, customer |-> c, status |-> "open", periodEnd |-> 0,
           cancelAtPeriodEnd |-> FALSE, subscription |-> sb] :
            c \in SubscriptionCustomers, sb \in SubscriptionIds}

EventObjects(type) == EventObjectsAt(type, PeriodEnds)

\* the step that follows User.findOne in each handler
subscriptionStep(type, u, obj) ==
  CASE type = "customer.subscription.created" -> "hsc_save"
    [] type = "customer.subscription.updated" -> "hsu_save"
    [] type = "customer.subscription.deleted" -> "hsd_save"
    [] type = "invoice.payment_succeeded" ->
         IF existingInvoice(u, obj.id) THEN "respond" ELSE "hip_save"
    [] OTHER -> "hif_save"

\* the subscription id an event carries
EventSubscription(w) ==
  IF w.type \in {"invoice.payment_succeeded", "invoice.payment_failed"}
    THEN w.obj.subscription ELSE w.obj.id

\* history: the event is the one another request has just handled, and the save of
\* that request is the last write of the subscription fields
Redelivered(p, type, obj) ==
  \E q \in Procs \ {p} :
    /\ webhook[q].pc = "respond" /\ webhook[q].settled
    /\ webhook[q].type = type /\ webhook[q].obj = obj

\* The request is verified and dispatched; User.findOne({ customerId }) is answered
\* with the user document.   index.js:127-150, 1874, 1898, 1922, 1945, 2006
DeliverSubscription(p, type, obj) ==
  LET user == FindByCustomer(obj.customer) IN
  /\ webhook[p].pc = "idle"
  /\ rejection("valid", webhookSecret) = 0
  /\ type = "invoice.payment_succeeded" => RoomForRecord
  /\ webhook' = [webhook EXCEPT ![p] =
       IF user = None \/ subscriptionStep(type, user, obj) = "respond"
         THEN [IdleWebhook EXCEPT !.pc = "respond", !.type = type, !.user = user]
         ELSE [IdleWebhook EXCEPT !.pc = subscriptionStep(type, user, obj), !.type = type,
                                  !.user = user, !.obj = obj, !.doc = subscription[user],
                                  !.again = Redelivered(p, type, obj)]]
  /\ prev' = NoPrev
  /\ UNCHANGED <<paymentHistory, orders, intents, checkout, payment, early, subVars, netVars>>

\* history: the deleted event of the subscription whose period-end cancel was just
\* saved ("deleted"), or another deleted event of the stored subscription ("canceled")
StoryAfterSave(p) ==
  LET w == webhook[p] IN
  IF /\ w.type = "customer.subscription.deleted" /\ w.doc = subscription[w.user]
     /\ w.obj.id = subscription[w.user].subscriptionId
    THEN IF story.phase = "requested" /\ story.user = w.user
           THEN [phase |-> "deleted", user |-> w.user, by |-> "event"]
           ELSE [phase |-> "canceled", user |-> w.user, by |-> "event"]
    ELSE NoStory

SaveStep(p, pc, ok, new) ==
  LET w == webhook[p] IN
  /\ w.pc = pc
  /\ ~removed[w.user].gone
  /\ subscription' = [subscription EXCEPT ![w.user] = saveSubscription(@, w.doc, new)]
  \* (history: before is the stored subscription the save met; settled marks the
  \* delivery whose save is the last write of the subscription fields)
  /\ webhook' = [q \in Procs |->
       IF q = p
         THEN [w EXCEPT !.pc = "respond", !.before = subscription[w.user],
                        !.appended = (pc = "hip_save"), !.cardFailed = ~ok,
                        !.overlap = (pc = "hip_save" /\ Midway(p, w.user)),
                        !.settled = TRUE]
         ELSE [webhook[q] EXCEPT !.settled = FALSE]]
  /\ story' = StoryAfterSave(p)

\* handleSubscriptionCreated: user.save()   index.js:1880-1886
handleSubscriptionCreated_save(p) ==
  /\ SaveStep(p, "hsc_save", TRUE, subscriptionCreated(webhook[p].doc, webhook[p].obj))
  /\ UNCHANGED <<paymentHistory, orders, intents, checkout, payment, prev, early, cancel, netVars>>

\* handleSubscriptionUpdated: user.save()   index.js:1904-1910
handleSubscriptionUpdated_save(p) ==
  /\ SaveStep(p, "hsu_save", TRUE, subscriptionUpdated(webhook[p].doc, webhook[p].obj))
  /\ UNCHANGED <<paymentHistory, orders, intents, checkout, payment, prev, early, cancel, netVars>>

\* handleSubscriptionCanceled: user.save()   index.js:1928-1933
handleSubscriptionCanceled_save(p) ==
  /\ SaveStep(p, "hsd_save", TRUE, subscriptionCanceled(webhook[p].doc, webhook[p].obj))
  /\ UNCHANGED <<paymentHistory, orders, intents, checkout, payment, prev, early, cancel, netVars>>

\* handleInvoicePaid: retrieval of the payment method (ok: it succeeds), push of the
\* record, status update, user.save()   index.js:1961-1994
handleInvoicePaid_save(p, ok) ==
  /\ SaveStep(p, "hip_save", ok, invoicePaid(webhook[p].doc, webhook[p].obj))
  /\ paymentHistory' = Append1(paymentHistory, webhook[p].user, invoiceRecord(webhook[p].obj, ok))
  /\ UNCHANGED <<orders, intents, checkout, payment, prev, early, cancel, netVars>>

\* handleInvoicePaymentFailed: user.save()   index.js:2012-2018
handleInvoicePaymentFailed_save(p) ==
  /\ SaveStep(p, "hif_save", TRUE, invoicePaymentFailed(webhook[p].doc, webhook[p].obj))
  /\ UNCHANGED <<paymentHistory, orders, intents, checkout, payment, prev, early, cancel, netVars>>

(* ------------------------ POST /subscriptions/cancel ------------------ *)
\* User.findById; 400 when the user has no subscriptionId   index.js:1535-1542
CancelFind(u, cancelImmediately) ==
  /\ cancel.pc = "idle"
  /\ ~removed[u].gone
  /\ subscription[u].subscriptionId # None
  /\ cancel' = [pc |-> "processor", user |-> u, cancelImmediately |-> cancelImmediately,
                doc |-> subscription[u], processorOk |-> FALSE]
  /\ UNCHANGED <<paymentHistory, orders, intents, webhook, checkout, payment, prev, early,
                 subscription, story, netVars>>

\* a request that goes on to the save whatever the processor answered, to test C29
afterProcessor_regardless(c, ok) == [c EXCEPT !.pc = "save", !.processorOk = ok]

\* the request after the processor calls: on to the save when they returned, ended
\* by the catch block when one of them threw   index.js:1544-1556, 1585-1591
afterProcessor(c, ok) ==
  IF ok THEN [c EXCEPT !.pc = "save", !.processorOk = TRUE] ELSE IdleCancel

\* subscriptions.retrieve, subscriptions.update and, when immediate,
\* subscriptions.cancel; a failure of any of them ends the request with 500
\* index.js:1544-1556, 1585-1591
CancelProcessor(ok) ==
  /\ cancel.pc = "processor"
  /\ cancel' = afterProcessor(cancel, ok)
  /\ UNCHANGED <<paymentHistory, orders, intents, webhook, checkout, payment, prev, early,
                 subscription, story, netVars>>

\* the fields the request assigns   index.js:1558-1560, 1570-1573
cancelRequest(doc, cancelImmediately) ==
  IF cancelImmediately
    THEN [doc EXCEPT !.subscriptionStatus = "canceled"]
    ELSE [doc EXCEPT !.subscriptionStatus = "active", !.cancelAtPeriodEnd = TRUE]

\* user.save()   index.js:1560, 1573
CancelSave ==
  /\ cancel.pc = "save"
  /\ subscription' = [subscription EXCEPT ![cancel.user] =
       saveSubscription(@, cancel.doc, cancelRequest(cancel.doc, cancel.cancelImmediately))]
  /\ story' = IF /\ ~cancel.cancelImmediately
                 /\ cancel.doc = subscription[cancel.user]
                 /\ cancel.doc.subscriptionStatus = "active"
                 /\ ~cancel.doc.cancelAtPeriodEnd
               THEN [phase |-> "requested", user |-> cancel.user, by |-> "request"]
               ELSE IF cancel.cancelImmediately /\ cancel.doc = subscription[cancel.user]
                      THEN [phase |-> "canceled", user |-> cancel.user, by |-> "request"]
                      ELSE NoStory
  /\ cancel' = IdleCancel
  /\ webhook' = Disturbed
  /\ UNCHANGED <<paymentHistory, orders, intents, checkout, payment, prev, early, netVars>>

(* --------------------------- POST /subscriptions ---------------------- *)
\* the invoice is new at the processor: no record and no event in flight names it
FreshInvoice(inv) ==
  /\ \A u \in Users : ~existingInvoice(u, inv)
  /\ \A p \in Procs : webhook[p].obj.id # inv

\* the status /subscriptions answers for the stored subscription and the payment
\* method, 200 when the request gets through to the processor   index.js:1405-1428
subscribeStatus(u, pm, dflt) ==
  IF subscription[u].subscriptionId # None /\ subscription[u].subscriptionStatus = "active"
  THEN 400
  ELSE cardStatus(u, selectedPaymentMethodId(pm, dflt))

\* the payment method selected, none when the request ends before the selection
\* index.js:1405-1415
subscribeSelected(u, pm, dflt) ==
  IF subscription[u].subscriptionId # None /\ subscription[u].subscriptionStatus = "active"
  THEN None
  ELSE selectedPaymentMethodId(pm, dflt)

\* a /subscriptions request that is refused: nothing is created or written
\* index.js:1400-1428
SubscribeRejected(u, pm, dflt) ==
  /\ subscribe.pc = "idle"
  /\ ~removed[u].gone
  /\ subscribeStatus(u, pm, dflt) # 200
  /\ answer' = [route |-> "/subscriptions", status |-> subscribeStatus(u, pm, dflt),
                user |-> u, selected |-> subscribeSelected(u, pm, dflt)]
  /\ UNCHANGED <<paymentHistory, orders, intents, webhook, checkout, payment, prev, early,
                 subVars, webhookSecret, account, removed, listing, subscribe, response>>

\* User.findById, the checks of the stored subscription and of the payment method,
\* then stripeClient.subscriptions.create; invoice is the latest invoice when its
\* payment intent has succeeded, None otherwise   index.js:1400-1452
SubscribeCreateWith(u, pm, dflt, id, invoice) ==
  /\ subscribe.pc = "idle"
  /\ ~removed[u].gone
  /\ subscribeStatus(u, pm, dflt) = 200
  /\ RoomForRecord
  /\ invoice # None => FreshInvoice(invoice)
  /\ subscribe' = [pc |-> "created", user |-> u, doc |-> subscription[u], id |-> id,
                   invoice |-> invoice,
                   status |-> IF invoice = None THEN "incomplete" ELSE "active",
                   periodEnd |-> CHOOSE e \in PeriodEnds : TRUE,
                   selected |-> selectedPaymentMethodId(pm, dflt)]
  /\ UNCHANGED <<paymentHistory, orders, intents, webhook, checkout, payment, prev, early,
                 subVars, webhookSecret, account, removed, listing, response, answer>>

\* a /subscriptions request paid with the caller's own card
SubscribeCreate(u, id, invoice) == SubscribeCreateWith(u, "pm_own", None, id, invoice)

\* the fields the request assigns   index.js:1470-1474
subscribed(doc, r) ==
  [doc EXCEPT !.subscriptionId = r.id, !.subscriptionStatus = r.status,
              !.subscriptionPeriodEnd = r.periodEnd]
\* the record pushed by /subscriptions when a payment was due   index.js:1477-1492
subscriptionRecord(r) ==
  [paymentIntentId |-> invoiceIntent(r.invoice), amount |-> amountOf(invoiceIntent(r.invoice)),
   status |-> "succeeded", invoiceId |-> r.invoice, paymentMethodLast4 |-> cardLast4]

\* user.save() and the response   index.js:1470-1510
SubscribeSave ==
  /\ subscribe.pc = "created"
  /\ subscription' = [subscription EXCEPT ![subscribe.user] =
       saveSubscription(@, subscribe.doc, subscribed(subscribe.doc, subscribe))]
  /\ paymentHistory' =
       IF subscribe.invoice = None THEN paymentHistory
       ELSE Append1(paymentHistory, subscribe.user, subscriptionRecord(subscribe))
  /\ subscribe' = IdleSubscribe
  /\ prev' = NoPrev
  /\ webhook' = Disturbed
  /\ story' = NoStory
  /\ answer' = [route |-> "/subscriptions", status |-> 201, user |-> subscribe.user,
                selected |-> subscribe.selected]
  /\ UNCHANGED <<orders, intents, checkout, payment, early, cancel,
                 webhookSecret, account, removed, listing, response>>

(* --------------------------- GET /payment-history --------------------- *)
RECURSIVE Reversed(_)
Reversed(s) == IF s = <<>> THEN <<>> ELSE Append(Reversed(Tail(s)), Head(s))

\* the loaded array sorted by createdAt, most recent first; createdAt is the time of
\* the push, so the stored order is the ascending one   index.js:837-840
sortedRecent(history) == Reversed(history)

\* User.findById, the sort of the loaded array and the response; the document is
\* not saved   index.js:830-857
GetPaymentHistory(u) ==
  /\ ~removed[u].gone
  /\ listing' = sortedRecent(paymentHistory[u])
  /\ UNCHANGED <<paymentHistory, orders, intents, webhook, checkout, payment, prev, early,
                 subVars, webhookSecret, account, removed, subscribe, response, answer>>

(* --------------------------- DELETE /user/account --------------------- *)
\* User.findById, 404 when the document is gone; the password, when given, matches
\* index.js:2120-2132
AccountFind(u) ==
  /\ account.pc = "idle"
  /\ ~removed[u].gone
  /\ account' = [IdleAccount EXCEPT
                   !.pc = IF subscription[u].subscriptionId # None THEN "cancel" ELSE "customer",
                   !.user = u, !.doc = subscription[u]]
  /\ UNCHANGED <<paymentHistory, orders, intents, webhook, checkout, payment, prev, early,
                 subVars, webhookSecret, removed, listing, subscribe, response, answer>>

\* stripeClient.subscriptions.cancel in its own try/catch: a failure is logged and the
\* deletion continues   index.js:2135-2144
AccountCancelSubscription(ok) ==
  /\ account.pc = "cancel"
  /\ account' = [account EXCEPT !.pc = "customer", !.cancelFailed = ~ok]
  /\ UNCHANGED <<paymentHistory, orders, intents, webhook, checkout, payment, prev, early,
                 subVars, webhookSecret, removed, listing, subscribe, response, answer>>

\* stripeClient.customers.del in its own try/catch: a failure is logged and the
\* deletion continues   index.js:2147-2155
AccountDeleteCustomer(ok) ==
  /\ account.pc = "customer"
  /\ account' = [account EXCEPT !.pc = "delete", !.customerFailed = ~ok]
  /\ UNCHANGED <<paymentHistory, orders, intents, webhook, checkout, payment, prev, early,
                 subVars, webhookSecret, removed, listing, subscribe, response, answer>>

\* User.findByIdAndDelete: the document goes, with its lists and subscription fields
\* index.js:2167-2172
AccountDelete ==
  LET u == account.user IN
  /\ account.pc = "delete"
  /\ removed' = [removed EXCEPT ![u] =
       [gone |-> TRUE, cancelFailed |-> account.cancelFailed,
        customerFailed |-> account.customerFailed]]
  /\ paymentHistory' = [paymentHistory EXCEPT ![u] = <<>>]
  /\ orders' = [orders EXCEPT ![u] = <<>>]
  /\ subscription' = [subscription EXCEPT ![u] = NoSubscription]
  /\ account' = IdleAccount
  /\ story' = NoStory
  /\ prev' = NoPrev
  /\ webhook' = Disturbed
  /\ UNCHANGED <<intents, checkout, payment, early, cancel, webhookSecret, listing,
                 subscribe, response, answer>>

\* user.save() of a handler whose document was deleted meanwhile throws; the handler
\* rethrows and the catch block of the endpoint answers   index.js:1887-1890, 159-162
SaveGone(p) ==
  /\ webhook[p].pc \in {"hsc_save", "hsu_save", "hsd_save", "hip_save", "hif_save"}
  /\ removed[webhook[p].user].gone
  /\ webhook' = [webhook EXCEPT ![p] = IdleWebhook]
  /\ response' = [status |-> catchStatus, sig |-> "valid", fault |-> "handler"]
  /\ prev' = NoPrev
  /\ UNCHANGED <<paymentHistory, orders, intents, checkout, payment, early, subVars,
                 restVars>>

(* ---------------------------- specifications -------------------------- *)
WebhookStep(p) ==
  \/ \E type \in PaymentEventTypes, pi \in PaymentIntentIds : Deliver(p, type, pi, ExternalIntents(pi))
  \/ handleSuccessfulPayment_check(p)
  \/ handleSuccessfulPayment_push(p, TRUE)
  \/ handleFailedPayment_push(p)
  \/ handleCanceledPayment_push(p)
  \/ resolveOrderUser(p)
  \/ updateOrderStatus_find(p)
  \/ updateOrderStatus_set(p)
  \/ Respond(p)

SyncStep ==
  \/ \E u \in Callers, o \in OrderRefs, pi \in PaymentIntentIds, s \in ConfirmStatuses :
       CheckoutCreateIntent(u, o, pi, s)
  \/ CheckoutSaveOrder
  \/ \E u \in Callers, pi \in PaymentIntentIds, s \in ConfirmStatuses :
       ProcessPaymentCreate(u, pi, s)
  \/ ProcessPaymentRecord

\* webhook deliveries one at a time, beside the synchronous requests
Next == WebhookStep(1) \/ SyncStep
Spec == Init /\ [][Next]_vars

\* payment_intent.succeeded deliveries processed concurrently, beside /checkout
SucceededStep(p) ==
  \/ \E pi \in PaymentIntentIds : Deliver(p, "payment_intent.succeeded", pi, PlainIntents(pi))
  \/ handleSuccessfulPayment_check(p)
  \/ handleSuccessfulPayment_push(p, TRUE)
  \/ updateOrderStatus_find(p)
  \/ updateOrderStatus_set(p)
  \/ Respond(p)

CheckoutStep ==
  \/ \E u \in Callers, o \in OrderRefs, pi \in PaymentIntentIds, s \in ConfirmStatuses :
       CheckoutCreateIntent(u, o, pi, s)
  \/ CheckoutSaveOrder

NextConc == (\E p \in Procs : SucceededStep(p)) \/ CheckoutStep
SpecConc == Init /\ [][NextConc]_vars


\* subscription and invoice events one at a time, beside /subscriptions/cancel
SubscriptionStep(p) ==
  \/ \E type \in SubscriptionEventTypes : \E obj \in EventObjects(type) :
       DeliverSubscription(p, type, obj)
  \/ handleSubscriptionCreated_save(p)
  \/ handleSubscriptionUpdated_save(p)
  \/ handleSubscriptionCanceled_save(p)
  \/ handleInvoicePaid_save(p, TRUE)
  \/ handleInvoicePaymentFailed_save(p)
  \/ Respond(p)

CancelStep ==
  \/ \E u \in Callers, b \in BOOLEAN : CancelFind(u, b)
  \/ \E ok \in BOOLEAN : CancelProcessor(ok)
  \/ CancelSave

NextSub == SubscriptionStep(1) \/ CancelStep
SpecSub == Init /\ [][NextSub]_vars

\* the intents of the callers' customers and of no local user, without metadata
CallerIntents(pi) == {it \in PlainIntents(pi) : it.customer \in SubscriptionCustomers}

\* payment_intent.succeeded and invoice.payment_succeeded deliveries with
\* payment-method retrievals that succeed or fail
LedgerStep(p) ==
  \/ \E pi \in PaymentIntentIds : Deliver(p, "payment_intent.succeeded", pi, CallerIntents(pi))
  \/ handleSuccessfulPayment_check(p)
  \/ \E ok \in BOOLEAN : handleSuccessfulPayment_push(p, ok)
  \/ \E obj \in EventObjects("invoice.payment_succeeded") :
       DeliverSubscription(p, "invoice.payment_succeeded", obj)
  \/ \E ok \in BOOLEAN : handleInvoicePaid_save(p, ok)
  \/ Respond(p)

SubscribeStep ==
  \/ \E u \in Callers, id \in SubscriptionIds, inv \in InvoiceIds \cup {None} :
       SubscribeCreate(u, id, inv)
  \/ SubscribeSave

\* the deliveries processed concurrently
NextLedger == \E p \in Procs : LedgerStep(p)
SpecLedger == Init /\ [][NextLedger]_vars

\* payment_intent.payment_failed and payment_intent.canceled deliveries
FailureStep(p) ==
  \/ \E type \in {"payment_intent.payment_failed", "payment_intent.canceled"} :
       \E pi \in PaymentIntentIds : Deliver(p, type, pi, CallerIntents(pi))
  \/ handleFailedPayment_push(p)
  \/ handleCanceledPayment_push(p)

\* the deliveries one at a time, beside /subscriptions and GET /payment-history
NextBilling ==
  \/ LedgerStep(1)
  \/ FailureStep(1)
  \/ SubscribeStep
  \/ \E u \in Callers : GetPaymentHistory(u)
SpecBilling == Init /\ [][NextBilling]_vars

\* the subscription lifecycle events, with an earlier and a later period end
LifecycleEventTypes == SubscriptionEventTypes \ {"invoice.payment_succeeded"}
EarlierLaterPeriodEnds == {1, 2}

SubscriptionSaves(p) ==
  \/ handleSubscriptionCreated_save(p)
  \/ handleSubscriptionUpdated_save(p)
  \/ handleSubscriptionCanceled_save(p)
  \/ handleInvoicePaymentFailed_save(p)

\* (the processor sends the next event once no redelivery is being handled)
LifecycleStep(p) ==
  \/ /\ \A q \in Procs \ {p} : webhook[q].pc = "idle"
     /\ \E type \in LifecycleEventTypes : \E obj \in EventObjectsAt(type, EarlierLaterPeriodEnds) :
          DeliverSubscription(p, type, obj)
  \/ SubscriptionSaves(p)
  \/ Respond(p)

\* the event request q has handled and is about to acknowledge
Answered(q) ==
  IF webhook[q].pc = "respond" /\ webhook[q].obj # NoObject THEN {webhook[q].obj} ELSE {}

\* the processor delivers the event of request q once more
RedeliveryStep(p, q) ==
  \/ \E obj \in Answered(q) : DeliverSubscription(p, webhook[q].type, obj)
  \/ SubscriptionSaves(p)
  \/ Respond(p)

\* lifecycle events one at a time, each of them possibly delivered a second time
NextEvents == LifecycleStep(1) \/ RedeliveryStep(2, 1)
SpecEvents == Init /\ [][NextEvents]_vars

AccountStep ==
  \/ \E u \in Callers : AccountFind(u)
  \/ \E ok \in BOOLEAN : AccountCancelSubscription(ok)
  \/ \E ok \in BOOLEAN : AccountDeleteCustomer(ok)
  \/ AccountDelete

\* customer.subscription.created events one at a time, beside DELETE /user/account
CreatedStep(p) ==
  \/ \E obj \in EventObjects("customer.subscription.created") :
       DeliverSubscription(p, "customer.subscription.created", obj)
  \/ handleSubscriptionCreated_save(p)
  \/ SaveGone(p)
  \/ Respond(p)

NextDelete == CreatedStep(1) \/ AccountStep
SpecDelete == Init /\ [][NextDelete]_vars

\* /checkout requests with a cart of C, a payment method of P in the body and a
\* stored default payment method of D
CheckoutRequests(C, P, D) ==
  \/ \E u \in Callers, cart \in C, pm \in P, dflt \in D, o \in OrderRefs,
        pi \in PaymentIntentIds, s \in ConfirmStatuses :
       CheckoutCreate(u, cart, pm, dflt, o, pi, s)
  \/ \E u \in Callers, cart \in C, pm \in P, dflt \in D :
       CheckoutRejected(u, cart, pm, dflt)
  \/ CheckoutSaveOrder

\* /checkout requests of any cart, paid with the caller's own card
NextCart == CheckoutRequests(Carts, {"pm_own"}, {None})
SpecCart == Init /\ [][NextCart]_vars

\* the carts of a valid item, an item without price, an item of quantity 0 and an
\* item of a negative price
FewItems ==
  {[price |-> 12995, quantity |-> 1], [price |-> 0, quantity |-> 1],
   [price |-> 12995, quantity |-> 0], [price |-> -5000, quantity |-> 1]}
FewCarts == CartsOf(FewItems)
\* user.defaultPaymentMethodId: unset, or a card of the user (set after the ownership
\* check of index.js:603)
OwnDefaults == {None, "pm_own"}

\* /checkout requests of valid and invalid carts with any payment method
NextCheckout == CheckoutRequests(FewCarts, PaymentMethodChoices, OwnDefaults)
SpecCheckout == Init /\ [][NextCheckout]_vars

\* the three endpoints that pay with a saved card, with any payment method
SavedCardStep ==
  \/ \E u \in Callers, pm \in PaymentMethodChoices, dflt \in OwnDefaults,
        pi \in PaymentIntentIds, s \in ConfirmStatuses :
       SavedCardCreate(u, pm, dflt, pi, s)
  \/ \E u \in Callers, pm \in PaymentMethodChoices, dflt \in OwnDefaults :
       SavedCardRejected(u, pm, dflt)
  \/ SavedCardRecord
SubscribeRequests ==
  \/ \E u \in Callers, pm \in PaymentMethodChoices, dflt \in OwnDefaults,
        id \in SubscriptionIds, inv \in InvoiceIds \cup {None} :
       SubscribeCreateWith(u, pm, dflt, id, inv)
  \/ \E u \in Callers, pm \in PaymentMethodChoices, dflt \in OwnDefaults :
       SubscribeRejected(u, pm, dflt)
  \/ SubscribeSave
NextCards ==
  \/ CheckoutRequests({cartOf(pi) : pi \in PaymentIntentIds}, PaymentMethodChoices, OwnDefaults)
  \/ SavedCardStep
  \/ SubscribeRequests
SpecCards == Init /\ [][NextCards]_vars

\* customer.subscription.created events one at a time, beside /subscriptions
NextSubscribe ==
  \/ \E obj \in EventObjects("customer.subscription.created") :
       DeliverSubscription(1, "customer.subscription.created", obj)
  \/ handleSubscriptionCreated_save(1)
  \/ Respond(1)
  \/ SubscribeStep
SpecSubscribe == Init /\ [][NextSubscribe]_vars

\* requests with any signature, with and without a configured secret, store faults
\* and events that need no work, beside /checkout
InitVerify == InitStore /\ webhookSecret \in BOOLEAN

VerifyStep(p) ==
  \/ \E sig \in Signatures : Reject(p, sig)
  \/ \E type \in OtherEventTypes : DeliverOther(p, type)
  \/ \E pi \in PaymentIntentIds :
       Deliver(p, "payment_intent.succeeded", pi, OrderOnlyIntents(pi))
  \/ handleSuccessfulPayment_check(p)
  \/ handleSuccessfulPayment_push(p, TRUE)
  \/ resolveOrderUser(p)
  \/ updateOrderStatus_find(p)
  \/ updateOrderStatus_set(p)
  \/ HandlerFault(p)
  \/ LookupFault(p)
  \/ updateOrderStatus_fault(p)
  \/ Respond(p)

NextVerify == VerifyStep(1) \/ CheckoutStep
SpecVerify == InitVerify /\ [][NextVerify]_vars

\* the continuations of a request in flight: each runs once the promise it awaits
\* has settled, with a value or with an error
Continue(p) ==
  \/ handleSuccessfulPayment_check(p)
  \/ handleSuccessfulPayment_push(p, TRUE)
  \/ resolveOrderUser(p)
  \/ updateOrderStatus_find(p)
  \/ updateOrderStatus_set(p)
  \/ HandlerFault(p) /\ webhook[p].pc # "idle"
  \/ LookupFault(p)
  \/ updateOrderStatus_fault(p)
  \/ Respond(p)

\* the same requests, every awaited promise settling eventually
SpecSettle == SpecVerify /\ WF_vars(Continue(1))

\* succeeded and failed events of intents whose metadata names an order and any or
\* no user, beside /checkout
MetadataStep(p) ==
  \/ \E type \in {"payment_intent.succeeded", "payment_intent.payment_failed"} :
       \E pi \in PaymentIntentIds : Deliver(p, type, pi, TaggedIntents(pi))
  \/ handleSuccessfulPayment_check(p)
  \/ handleSuccessfulPayment_push(p, TRUE)
  \/ handleFailedPayment_push(p)
  \/ resolveOrderUser(p)
  \/ updateOrderStatus_find(p)
  \/ updateOrderStatus_set(p)
  \/ Respond(p)

NextMeta == MetadataStep(1) \/ CheckoutStep
SpecMeta == Init /\ [][NextMeta]_vars

(* ------------------------------- claims ------------------------------- *)
TerminalStatuses == {"completed", "failed", "canceled"}
OrderStatuses == {"pending"} \cup TerminalStatuses

\* the user whose order the dispatcher updates   index.js:60-70, 92
ResolvedUser(it) == IF it.userId # None THEN it.userId ELSE FindByCustomer(it.customer)
HasOrder(u, o) == u \in Users /\ findIndex(orders[u], o) > 0
OrderOf(u, o) == orders[u][findIndex(orders[u], o)]
RecordsOf(u, pi) == SelectSeq(paymentHistory[u], LAMBDA r : r.paymentIntentId = pi)

\* C1: when a payment_intent.succeeded event whose first delivery appended the
\* record is delivered a second time right after the first, the customer's user
\* holds exactly one record with that payment-intent id once the second delivery
\* is answered, and the referenced order is 'completed'.
C1_RedeliveryKeepsOneRecord ==
  (prev.twice /\ prev.type = "payment_intent.succeeded") =>
    LET it == intents[prev.pi] IN
    /\ Count(FindByCustomer(it.customer), prev.pi) = 1
    /\ (it.orderId # None /\ HasOrder(ResolvedUser(it), it.orderId)) =>
         OrderOf(ResolvedUser(it), it.orderId).status = "completed"

C1_Witness ==
  /\ prev.twice /\ prev.type = "payment_intent.succeeded"
  /\ intents[prev.pi].orderId # None
  /\ HasOrder(ResolvedUser(intents[prev.pi]), intents[prev.pi].orderId)
  /\ OrderOf(ResolvedUser(intents[prev.pi]), intents[prev.pi].orderId).status = "completed"

\* C2: once an order's status is terminal (completed, failed or canceled), no
\* step changes its status or its paymentStatus.
C2_TerminalOrderNeverChanges ==
  [][\A u \in Users : \A i \in 1..Len(orders[u]) :
       orders[u][i].status \in TerminalStatuses =>
         /\ orders'[u][i].status = orders[u][i].status
         /\ orders'[u][i].paymentStatus = orders[u][i].paymentStatus]_vars

\* C3: when two deliveries of one payment_intent.succeeded event are processed
\* concurrently, the first of them having started with no record of the intent,
\* the customer's user holds exactly one record with that payment-intent id once
\* both have finished their work.
C3_ConcurrentDuplicateKeepsOneRecord ==
  \A p \in Procs, q \in Procs :
    ( /\ p # q
      /\ webhook[p].pc = "respond" /\ webhook[q].pc = "respond"
      /\ webhook[p].type = "payment_intent.succeeded" /\ webhook[q].type = webhook[p].type
      /\ webhook[q].pi = webhook[p].pi
      /\ webhook[p].fresh )
    => Count(webhook[p].user, webhook[p].pi) = 1

\* C4: in every reachable state every user holds at most one payment record
\* per payment-intent id.
C4_AtMostOneRecordPerIntent ==
  \A u \in Users, pi \in PaymentIntentIds : Count(u, pi) <= 1

\* C5: when a payment_intent.payment_failed or payment_intent.canceled event is
\* delivered a second time right after its first delivery, the customer's user
\* holds exactly one record with that payment-intent id.
C5_FailedCanceledRedeliveryKeepsOneRecord ==
  (prev.twice /\ prev.type \in {"payment_intent.payment_failed", "payment_intent.canceled"}) =>
    Count(FindByCustomer(intents[prev.pi].customer), prev.pi) = 1

\* C6: the succeeded event answered before /checkout has saved the order,
\* followed by the save, leaves the order with the status and paymentStatus that
\* the reverse ordering leaves (save, then event: 'completed' and 'succeeded').
C6_EventThenCheckoutCommutes ==
  \A u \in Users :
    (early # None /\ HasOrder(u, early)) =>
      /\ OrderOf(u, early).status = orderOutcome("payment_intent.succeeded").status
      /\ OrderOf(u, early).paymentStatus = orderOutcome("payment_intent.succeeded").paymentStatus

\* C7: in every reachable state every stored order has a status among pending,
\* completed, failed and canceled.
C7_OrderStatusInDomain ==
  \A u \in Users : \A i \in 1..Len(orders[u]) : orders[u][i].status \in OrderStatuses

\* C8: a payment_intent.succeeded event for an existing order of total T
\* (metadata orderId and userId, customer of that user, amount T, no record of
\* the intent yet), processed once, leaves the order 'completed' with
\* paymentStatus 'succeeded' and exactly one record of that intent, of amount T
\* and status 'succeeded', in the user's paymentHistory.
C8_SucceededCompletesOrderAndRecordsOnce ==
  prev.first =>
    LET it == intents[prev.pi]
        o == OrderOf(it.userId, it.orderId) IN
    /\ o.status = "completed" /\ o.paymentStatus = "succeeded"
    /\ prev.appended
    /\ RecordsOf(it.userId, prev.pi) =
         <<[paymentIntentId |-> prev.pi, amount |-> o.totalAmount, status |-> "succeeded",
            invoiceId |-> None, paymentMethodLast4 |-> cardLast4]>>

C8_Witness ==
  /\ prev.first
  /\ OrderOf(intents[prev.pi].userId, intents[prev.pi].orderId).totalAmount = 2599
  /\ Count(intents[prev.pi].userId, prev.pi) = 1

\* the save steps of the handlers named by the terminal-cancellation rule
LaterEventSaves == {"hsc_save", "hsu_save", "hip_save", "hif_save"}

\* C9: once the stored subscription S of a user has status 'canceled' (by an immediate
\* cancel request or by customer.subscription.deleted), an event that
\* carries the same id S (customer.subscription.updated, customer.subscription.created,
\* invoice.payment_succeeded, invoice.payment_failed) and is handled afterwards leaves
\* the stored status 'canceled'.
C9_CanceledIsTerminal ==
  [][\A p \in Procs : \A u \in Users :
       (/\ webhook[p].pc \in LaterEventSaves
        /\ webhook[p].user = u
        /\ webhook[p].doc = subscription[u]
        /\ story.phase \in {"canceled", "deleted"} /\ story.user = u
        /\ subscription[u].subscriptionStatus = "canceled"
        /\ EventSubscription(webhook[p]) = subscription[u].subscriptionId
        /\ webhook'[p].pc = "respond")
       => subscription'[u].subscriptionStatus = "canceled"]_vars

\* C10: after a cancel request with cancelImmediately = false on an active subscription
\* whose cancelAtPeriodEnd was false, the status is 'active' and cancelAtPeriodEnd is
\* true; after the customer.subscription.deleted event of that subscription that
\* follows, the status is 'canceled' and cancelAtPeriodEnd is false.
C10_PeriodEndCancelThenDeleted ==
  /\ story.phase = "requested" =>
       /\ subscription[story.user].subscriptionStatus = "active"
       /\ subscription[story.user].cancelAtPeriodEnd
  /\ story.phase = "deleted" =>
       /\ subscription[story.user].subscriptionStatus = "canceled"
       /\ ~subscription[story.user].cancelAtPeriodEnd

C10_Witness ==
  /\ story.phase = "deleted"
  /\ subscription[story.user].subscriptionStatus = "canceled"
  /\ ~subscription[story.user].cancelAtPeriodEnd
  /\ subscription[story.user].subscriptionId # None

\* C11: a customer.subscription.created or customer.subscription.updated event of a
\* known customer, handled with no other write in between, leaves the stored
\* subscription id, status and period end equal to those the event carries.
C11_CreatedUpdatedOverwrite ==
  [][\A p \in Procs : \A u \in Users :
       (/\ webhook[p].pc \in {"hsc_save", "hsu_save"}
        /\ webhook[p].user = u
        /\ webhook[p].doc = subscription[u]
        /\ webhook'[p].pc = "respond")
       => /\ subscription'[u].subscriptionId = webhook[p].obj.id
          /\ subscription'[u].subscriptionStatus = webhook[p].obj.status
          /\ subscription'[u].subscriptionPeriodEnd = webhook[p].obj.periodEnd]_vars

\* C12: an invoice.payment_failed event of a known customer sets the stored status to
\* 'past_due', and nothing else, when the invoice's subscription id equals the stored
\* subscription id; when the ids differ the stored subscription fields stay as they were.
C12_InvoiceFailedGuard ==
  [][\A p \in Procs : \A u \in Users :
       (/\ webhook[p].pc = "hif_save"
        /\ webhook[p].user = u
        /\ webhook'[p].pc = "respond")
       => IF webhook[p].obj.subscription = subscription[u].subscriptionId
            THEN webhook[p].doc = subscription[u] =>
                   subscription'[u] = [subscription[u] EXCEPT !.subscriptionStatus = "past_due"]
            ELSE subscription'[u] = subscription[u]]_vars

\* a late invoice.payment_failed of another subscription met an active subscription
C12_Witness ==
  \E p \in Procs :
    /\ webhook[p].pc = "respond"
    /\ webhook[p].type = "invoice.payment_failed"
    /\ webhook[p].user \in Users
    /\ webhook[p].before.subscriptionId \in SubscriptionIds
    /\ webhook[p].obj.subscription # webhook[p].before.subscriptionId
    /\ webhook[p].before.subscriptionStatus = "active"
    /\ subscription[webhook[p].user] = webhook[p].before

\* C13: a webhook request without signature header, or with a signature that does not
\* verify under the configured secret, is answered with a 4xx status and changes no
\* paymentHistory, order or subscription field.
C13_BadSignatureRejected4xx ==
  [][(/\ response' # response
      /\ \/ response'.sig = "absent"
         \/ response'.sig \in {"malformed", "mismatch"} /\ webhookSecret)
     => /\ response'.status \in 400..499
        /\ UNCHANGED storeVars]_vars

C13_Witness ==
  /\ webhookSecret
  /\ response.sig = "mismatch" /\ response.status = 400
  /\ \E u \in Users : paymentHistory[u] # <<>>

\* C14: a webhook request that carries a signature header while no webhook secret is
\* configured is answered with a 5xx status, nothing is dispatched and no
\* paymentHistory, order or subscription field changes.
C14_MissingSecretRejected5xx ==
  [][(/\ response' # response
      /\ response'.sig # "absent"
      /\ ~webhookSecret)
     => /\ response'.status \in 500..599
        /\ UNCHANGED storeVars
        /\ UNCHANGED webhook]_vars

C14_Witness ==
  /\ ~webhookSecret
  /\ response.sig = "valid" /\ response.status = 500
  /\ \E u \in Users : orders[u] # <<>>

\* C15: when a verified event's handler fails because the store rejects a read or a
\* write, the webhook response has a 5xx status.
C15_HandlerFaultAnswered5xx ==
  response.fault = "handler" => response.status \in 500..599

\* C16: a verified event of a type the dispatcher does not handle, or of one of the
\* no-op types, changes no paymentHistory, order or subscription field and is
\* answered with a 2xx status.
C16_OtherEventsAcknowledgedUnchanged ==
  [][\A p \in Procs :
       (/\ webhook'[p] # webhook[p]
        /\ webhook[p].type \in OtherEventTypes \/ webhook'[p].type \in OtherEventTypes)
       => /\ UNCHANGED storeVars
          /\ webhook'[p].pc = "idle" => response'.status \in 200..299]_vars

C16_Witness ==
  /\ prev.type \in OtherEventTypes
  /\ response = Acknowledged
  /\ \E u \in Users : paymentHistory[u] # <<>>

\* the delivery in flight found no order for its order reference
OrderMissed(w) ==
  /\ w.pc = "respond"
  /\ w.type \in {"payment_intent.succeeded", "payment_intent.payment_failed"}
  /\ intents[w.pi].orderId # None
  /\ w.userId \in Users /\ w.orderIndex = 0

C18_FailureAfterLedgerWriteAcknowledged ==
  response.fault = "lookup_after_write" => response.status \in 200..299

\* C19: for a payment_intent.succeeded or payment_intent.payment_failed event with an
\* order reference, the order is searched among the orders of the user the metadata
\* names or, without metadata user id, of the user whose customer id the event carries.
C19_OwnerResolvedForEveryOutcome ==
  [][\A p \in Procs :
       LET w == webhook[p]
           it == intents[w.pi]
           owner == ResolvedUser(it) IN
       (w.pc = "uos_find" /\ webhook'[p].pc # "uos_find")
       => webhook'[p].orderIndex =
            (IF owner \in Users THEN findIndex(orders[owner], it.orderId) ELSE 0)]_vars

\* C20: when a payment_intent.succeeded event carries a metadata user id and a
\* customer id of two different local users, the payment record is appended for the
\* user the metadata names and the paymentHistory of the customer's user is unchanged.
C20_MetadataPrecedesCustomer ==
  \A p \in Procs :
    LET w == webhook[p]
        it == intents[w.pi] IN
    (/\ w.pc = "respond" /\ w.type = "payment_intent.succeeded"
     /\ it.userId \in Users
     /\ FindByCustomer(it.customer) \in Users \ {it.userId})
    => /\ ~w.appended
       /\ Count(it.userId, w.pi) >= 1

\* the record a delivery in flight has appended
RecordOf(w) ==
  IF w.type = "payment_intent.succeeded"
    THEN successRecord(w.pi, intents[w.pi], ~w.cardFailed)
    ELSE invoiceRecord(w.obj, ~w.cardFailed)

\* C21: when two deliveries of different events for one user (payment_intent.succeeded
\* of an intent and invoice.payment_succeeded of an invoice, or two invoice events)
\* are processed concurrently and each appends a record, both records are in the
\* user's paymentHistory once both have written.
C21_ConcurrentAppendsBothKept ==
  \A p \in Procs, q \in Procs :
    ( /\ p # q
      /\ webhook[p].pc = "respond" /\ webhook[q].pc = "respond"
      /\ webhook[p].appended /\ webhook[q].appended
      /\ webhook[p].user = webhook[q].user
      /\ webhook[p].overlap
      /\ RecordOf(webhook[p]) # RecordOf(webhook[q]) )
    => LET h == paymentHistory[webhook[p].user] IN
       \E i \in 1..Len(h), j \in 1..Len(h) :
         i # j /\ h[i] = RecordOf(webhook[p]) /\ h[j] = RecordOf(webhook[q])

\* a succeeded delivery wrote its record while an invoice delivery of the same user
\* was between its read and its save
C21_Witness ==
  \E p \in Procs, q \in Procs :
    /\ p # q
    /\ webhook[p].pc = "respond" /\ webhook[q].pc = "respond"
    /\ webhook[p].type = "payment_intent.succeeded"
    /\ webhook[q].type = "invoice.payment_succeeded"
    /\ webhook[p].appended /\ webhook[q].appended
    /\ webhook[p].user = webhook[q].user
    /\ webhook[p].overlap
    /\ Len(paymentHistory[webhook[p].user]) = 2

\* number of records of user u that carry invoice id inv
CountInvoice(u, inv) == Len(SelectSeq(paymentHistory[u], LAMBDA r : r.invoiceId = inv))

\* C22: in every reachable state every user holds at most one payment record per
\* invoice id, whether the invoice.payment_succeeded event is redelivered or arrives
\* before or after /subscriptions recorded the same invoice.
C22_AtMostOneRecordPerInvoice ==
  \A u \in Users, inv \in InvoiceIds : CountInvoice(u, inv) <= 1

\* the enum of the status field of a payment record   unnamed/part_001:62-66
RecordStatuses == {"succeeded", "processing", "failed", "canceled"}

\* C23: in every reachable state every payment record has a status among succeeded,
\* processing, failed and canceled, the records written by the synchronous payment
\* endpoints included.
C23_RecordStatusInDomain ==
  \A u \in Users : \A i \in 1..Len(paymentHistory[u]) :
    paymentHistory[u][i].status \in RecordStatuses

\* C24: no step removes, changes or reorders the records of a user: every step
\* leaves each paymentHistory as it was or extends it by one record at the end.
C24_LedgerAppendOnly ==
  [][\A u \in Users :
       LET h == paymentHistory[u] IN
       \/ paymentHistory'[u] = h
       \/ /\ Len(paymentHistory'[u]) = Len(h) + 1
          /\ SubSeq(paymentHistory'[u], 1, Len(h)) = h]_vars

\* GET /payment-history listed two records most recent first, an event then
\* appended a third, and the stored list kept the order of the writes
C24_Witness ==
  \E u \in Users :
    /\ Len(listing) = 2 /\ listing[1] # listing[2]
    /\ Len(paymentHistory[u]) = 3
    /\ SubSeq(paymentHistory[u], 1, 2) = Reversed(listing)

\* C25: the order-status update changes only the status and paymentStatus of the order
\* the event references: the other fields of that order, the user's other orders, the
\* orders of other users, every paymentHistory and every subscription field stay as
\* they were.
C25_OrderUpdateFrame ==
  [][\A p \in Procs :
       LET w == webhook[p]
           k == findIndex(orders[w.userId], intents[w.pi].orderId) IN
       (w.pc = "uos_set" /\ webhook'[p].pc # "uos_set")
       => /\ UNCHANGED <<paymentHistory, subscription>>
          /\ \A u \in Users \ {w.userId} : orders'[u] = orders[u]
          /\ Len(orders'[w.userId]) = Len(orders[w.userId])
          /\ \A i \in 1..Len(orders[w.userId]) :
               IF i = k
                 THEN orders'[w.userId][i] =
                        [orders[w.userId][i] EXCEPT
                           !.status = orders'[w.userId][i].status,
                           !.paymentStatus = orders'[w.userId][i].paymentStatus]
                 ELSE orders'[w.userId][i] = orders[w.userId][i]]_vars

\* the second of two orders was completed while the first kept the status it was
\* saved with, beside a payment record
C25_Witness ==
  \E p \in Procs :
    LET w == webhook[p] IN
    /\ w.pc = "respond" /\ w.orderIndex = 2
    /\ Len(orders[w.userId]) = 2
    /\ orders[w.userId][2].status = "completed"
    /\ orders[w.userId][1].status = "requires_action"
    /\ paymentHistory[w.userId] # <<>>

\* C26: when the retrieval of the payment method fails while payment_intent.succeeded
\* or invoice.payment_succeeded is handled, the record is still appended, with
\* paymentMethodLast4 'unknown', and the delivery is answered with a 2xx status.
C26_RetrievalFailureStillRecords ==
  [][\A p \in Procs :
       LET w == webhook[p] IN
       /\ (w.pc \in {"hsp_push", "hip_save"} /\ webhook'[p].pc # w.pc /\ webhook'[p].cardFailed)
          => /\ webhook'[p].pc = "respond"
             /\ Len(paymentHistory'[w.user]) = Len(paymentHistory[w.user]) + 1
             /\ LET r == paymentHistory'[w.user][Len(paymentHistory'[w.user])] IN
                  /\ r.paymentMethodLast4 = "unknown"
                  /\ r.status = "succeeded"
                  /\ r.paymentIntentId =
                       (IF w.pc = "hsp_push" THEN w.pi ELSE invoiceIntent(w.obj.id))
                  /\ r.invoiceId = (IF w.pc = "hsp_push" THEN None ELSE w.obj.id)
       /\ (w.pc = "respond" /\ w.cardFailed /\ webhook'[p].pc = "idle")
          => response'.status \in 200..299]_vars

\* a succeeded delivery whose retrieval failed was acknowledged and its record, with
\* last4 'unknown', is the customer's only record of the intent
C26_Witness ==
  /\ prev.type = "payment_intent.succeeded" /\ prev.appended
  /\ response = Acknowledged
  /\ LET u == FindByCustomer(intents[prev.pi].customer) IN
       /\ Count(u, prev.pi) = 1
       /\ RecordsOf(u, prev.pi)[1].paymentMethodLast4 = "unknown"

\* C27: a customer.subscription.updated event overwrites the stored status and period
\* end with its own, also when its period end is older than the stored one: of two
\* updated events handled one after the other, the one handled last decides both.
C27_LastUpdatedEventWins ==
  [][\A p \in Procs : \A u \in Users :
       (/\ webhook[p].pc = "hsu_save"
        /\ webhook[p].user = u
        /\ webhook[p].doc = subscription[u]
        /\ webhook'[p].pc = "respond")
       => /\ subscription'[u].subscriptionPeriodEnd = webhook[p].obj.periodEnd
          /\ subscription'[u].subscriptionStatus = webhook[p].obj.status]_vars

\* an updated event with the earlier period end and another status was handled after
\* the later period end had been stored
C27_Witness ==
  \E p \in Procs :
    LET w == webhook[p] IN
    /\ w.pc = "respond" /\ w.type = "customer.subscription.updated"
    /\ w.user \in Users
    /\ w.doc = w.before
    /\ w.before.subscriptionPeriodEnd = 2 /\ w.obj.periodEnd = 1
    /\ w.before.subscriptionStatus = "active" /\ w.obj.status = "past_due"
    /\ subscription[w.user].subscriptionPeriodEnd = 1
    /\ subscription[w.user].subscriptionStatus = "past_due"

\* C28: each of the handlers of customer.subscription.created, .updated, .deleted and
\* invoice.payment_failed is idempotent: handling the same event a second time right
\* after the first leaves the stored subscription id, status, period end and
\* cancelAtPeriodEnd as the first handling left them.
C28_LifecycleHandlersIdempotent ==
  [][\A p \in Procs : \A u \in Users :
       (/\ webhook[p].pc \in {"hsc_save", "hsu_save", "hsd_save", "hif_save"}
        /\ webhook[p].user = u
        /\ webhook[p].again
        /\ webhook[p].doc = subscription[u]
        /\ webhook'[p].pc = "respond")
       => subscription'[u] = subscription[u]]_vars

\* the second delivery of an invoice.payment_failed event of the stored subscription
\* was handled and the status is still the 'past_due' of the first
C28_Witness ==
  \E p \in Procs :
    LET w == webhook[p] IN
    /\ w.pc = "respond" /\ w.type = "invoice.payment_failed" /\ w.again
    /\ w.user \in Users
    /\ w.doc = w.before
    /\ w.obj.subscription = subscription[w.user].subscriptionId
    /\ subscription[w.user].subscriptionStatus = "past_due"
    /\ subscription[w.user] = w.before

\* C29: a cancel request with cancelImmediately = true stores the status 'canceled' in
\* the step that follows the processor calls, and only when they succeeded; when a
\* processor call fails the request ends and the stored subscription is unchanged.
\* (The status is checked for a request that found the subscription not yet canceled,
\* or whose document no other write touched before the save.)
C29_ImmediateCancelAfterProcessor ==
  [][/\ (cancel.pc = "save" /\ cancel.cancelImmediately /\ cancel'.pc = "idle")
        => /\ cancel.processorOk
           /\ (\/ cancel.doc.subscriptionStatus # "canceled"
               \/ cancel.doc = subscription[cancel.user])
              => subscription'[cancel.user].subscriptionStatus = "canceled"
     /\ (cancel.pc = "processor" /\ cancel'.pc # "processor")
        => /\ UNCHANGED subscription
           /\ cancel'.pc = "idle" <=> ~cancel'.processorOk]_vars

\* an immediate cancel request found an active subscription, the processor calls
\* succeeded and the save stored 'canceled'
C29_Witness ==
  /\ story.phase = "canceled" /\ story.by = "request"
  /\ cancel.pc = "idle"
  /\ subscription[story.user].subscriptionId # None
  /\ subscription[story.user].subscriptionStatus = "canceled"

\* C30: the user document is deleted only after the subscription was canceled at the
\* processor and the customer was deleted there: no deleted user has a failed
\* processor-side cancellation or customer deletion behind it.
C30_DeletedOnlyAfterProcessorRelease ==
  \A u \in Users :
    removed[u].gone => ~removed[u].cancelFailed /\ ~removed[u].customerFailed

\* C31: every webhook delivery is answered exactly once and every handler terminates:
\* a request in flight sends no response before the step that ends it, that step
\* sends one of the statuses of the endpoint, and every request in flight ends.
C31_EveryDeliveryAnsweredOnce ==
  /\ [][/\ webhook[1].pc # "idle" /\ webhook'[1].pc # "idle" => response' = response
        /\ webhook[1].pc # "idle" /\ webhook'[1].pc = "idle" =>
             /\ response'.status \in {200, catchStatus}
             /\ response'.sig = "valid"
        /\ (webhook[1].pc = "idle" /\ response' # response) =>
             /\ webhook'[1].pc = "idle"
             /\ response'.status \in {400, 500}]_vars
  /\ (webhook[1].pc # "idle") ~> (webhook[1].pc = "idle")

\* a delivery whose owner lookup failed after the ledger write was answered by the
\* catch block, and no request is in flight
C31_Witness ==
  /\ webhook[1].pc = "idle"
  /\ response.fault = "lookup_after_write" /\ response.status = catchStatus
  /\ \E u \in Users : paymentHistory[u] # <<>>

\* C32: once a payment_intent.canceled event whose metadata references an order of
\* the user that is not yet terminal has been handled, that order has the status
\* 'canceled' (and the 'canceled' payment record is appended).
C32_CanceledEventCancelsOrder ==
  \A p \in Procs :
    LET w == webhook[p]
        it == intents[w.pi] IN
    (/\ w.pc = "respond" /\ w.type = "payment_intent.canceled"
     \* (first delivery, no synchronous write since it arrived)
     /\ w.fresh
     /\ it.orderId # None
     /\ HasOrder(ResolvedUser(it), it.orderId))
    => /\ OrderOf(ResolvedUser(it), it.orderId).status = "canceled"
       /\ w.appended

\* C33: a customer.subscription.deleted event carrying a subscription id other than
\* the id the user stores leaves the stored subscription status and cancelAtPeriodEnd
\* flag as they were.
C33_DeletedOfOtherSubscriptionIgnored ==
  [][\A p \in Procs : \A u \in Users :
       (/\ webhook[p].pc = "hsd_save"
        /\ webhook[p].user = u
        /\ subscription[u].subscriptionId \in SubscriptionIds
        /\ webhook[p].obj.id # subscription[u].subscriptionId
        /\ webhook'[p].pc = "respond")
       => /\ subscription'[u].subscriptionStatus = subscription[u].subscriptionStatus
          /\ subscription'[u].cancelAtPeriodEnd = subscription[u].cancelAtPeriodEnd]_vars

\* C34: in every interleaving of an order-status update with checkouts of the same
\* user, the positional write changes the order whose orderId is the requested
\* reference and no other: the index read before the write still denotes it.
C34_PositionalUpdateHitsRequestedOrder ==
  [][\A p \in Procs :
       LET w == webhook[p]
           os == orders[w.userId] IN
       (w.pc = "uos_set" /\ webhook'[p].pc # "uos_set")
       => /\ w.orderIndex \in 1..Len(os)
          /\ os[w.orderIndex].orderId = intents[w.pi].orderId
          /\ \A i \in 1..Len(os) :
               orders'[w.userId][i] # os[i] => os[i].orderId = intents[w.pi].orderId]_vars

\* a checkout of the same user appended a second order between the index read and
\* the write, and the write completed the first, requested order
C34_Witness ==
  \E p \in Procs :
    LET w == webhook[p] IN
    /\ w.pc = "respond" /\ w.raced /\ w.orderIndex = 1
    /\ Len(orders[w.userId]) = 2
    /\ orders[w.userId][1].orderId = intents[w.pi].orderId
    /\ orders[w.userId][1].status = "completed"
    /\ orders[w.userId][2].status # "completed"

\* the statuses of a subscription that is live
LiveStatuses == {"active", "trialing", "past_due"}

\* C35: POST /subscriptions goes on to create a subscription only for a user without
\* live subscription: a request of a user whose stored subscription is active,
\* trialing or past_due is rejected, so the stored subscription is not replaced.
C35_SubscribeOnlyWithoutLiveSubscription ==
  subscribe.pc = "created" =>
    ~(/\ subscribe.doc.subscriptionId # None
      /\ subscribe.doc.subscriptionStatus \in LiveStatuses)

RECURSIVE SumSubtotals(_)
SumSubtotals(items) ==
  IF items = <<>> THEN 0 ELSE items[1].subtotal + SumSubtotals(Tail(items))

\* C36: in every order written by /checkout each line item's subtotal is its unit
\* price in minor units times its quantity, the order's totalAmount is the sum of the
\* subtotals, and the payment intent of the order was created for that totalAmount.
C36_OrderTotalsAddUp ==
  \A u \in Users : \A i \in 1..Len(orders[u]) :
    LET o == orders[u][i] IN
    /\ \A k \in 1..Len(o.items) : o.items[k].subtotal = o.items[k].price * o.items[k].quantity
    /\ o.totalAmount = SumSubtotals(o.items)
    /\ intents[o.paymentIntentId].amount = o.totalAmount
\* an order of two line items, one of quantity 2 at a price rounded up to 1300
C36_Witness ==
  \E u \in Users : \E i \in 1..Len(orders[u]) :
    LET o == orders[u][i] IN
    /\ Len(o.items) = 2
    /\ o.items[1] = [quantity |-> 2, price |-> 1300, subtotal |-> 2600]
    /\ o.items[2].quantity = 1
    /\ o.totalAmount = 2600 + o.items[2].price

\* the ways the claim lists for a /checkout request to fail validation
FailsValidation(u, cart, selected) ==
  \/ Len(cart) = 0
  \/ \E k \in 1..Len(cart) : cart[k].price = 0 \/ cart[k].quantity <= 0
  \/ SumSubtotals([k \in 1..Len(cart) |->
        [subtotal |-> toCents(cart[k].price) * cart[k].quantity]]) <= 0
  \/ selected = None
  \/ customerOf(selected) # customerId(u)

\* C37: a /checkout request that fails validation (no items, an item without price
\* or with a non-positive quantity, a non-positive total, no payment method, a payment
\* method of another customer) never gets to creating a payment intent, and the
\* refusal it is answered with leaves the payment intents and the orders unchanged.
C37_RefusedCheckoutWritesNothing ==
  [][/\ (checkout.pc = "idle" /\ checkout'.pc = "created") =>
          ~FailsValidation(checkout'.user, checkout'.cart, checkout'.selected)
     /\ (answer' # answer /\ answer'.route = "/checkout" /\ answer'.status # 200) =>
          /\ intents' = intents
          /\ orders' = orders
          /\ checkout' = checkout]_vars
\* a request with an invalid item was answered 500 while the user has an order
C37_Witness ==
  /\ answer.route = "/checkout"
  /\ answer.status = 500
  /\ \E u \in Callers : Len(orders[u]) = 1

\* C38: /process-payment-with-saved-card, /checkout and /subscriptions go on to the
\* processor only with a payment method attached to the caller's customer; a request
\* whose selected payment method is attached to another customer is answered 403 and
\* creates no payment intent or subscription and writes no record and no order.
C38_OnlyOwnPaymentMethodPays ==
  [][/\ (checkout.pc = "idle" /\ checkout'.pc = "created") =>
          customerOf(checkout'.selected) = customerId(checkout'.user)
     /\ (payment.pc = "idle" /\ payment'.pc = "card_created") =>
          customerOf(payment'.selected) = customerId(payment'.user)
     /\ (subscribe.pc = "idle" /\ subscribe'.pc = "created") =>
          customerOf(subscribe'.selected) = customerId(subscribe'.user)
     /\ (/\ answer' # answer
         /\ answer'.selected # None
         /\ customerOf(answer'.selected) # customerId(answer'.user)) =>
          /\ answer'.status = 403
          /\ intents' = intents
          /\ storeVars' = storeVars
          /\ checkout' = checkout /\ payment' = payment /\ subscribe' = subscribe]_vars
\* each endpoint has refused a payment method of another customer while the user has
\* a payment record
C38_Witness ==
  /\ answer.status = 403
  /\ answer.selected = "pm_other"
  /\ answer.route = "/subscriptions"
  /\ \E u \in Callers : Len(paymentHistory[u]) = 1 /\ Len(orders[u]) = 1

====
